---- MODULE Spec2Model ----
(***************************************************************************)
(* Invoice converter: the circuit-breaker protected exchange-rate lookup   *)
(* (backend/app/currency.py), the invoice pipeline stages                  *)
(* (backend/langgraph_nodes/*.py) and the web application that runs the    *)
(* pipeline as a background task (backend/app/main.py).                    *)
(*                                                                         *)
(* Python values are modelled as follows.                                  *)
(*   - a Decimal is a record [c, d]: coefficient c and d decimal places    *)
(*     (Decimal("3.333") is [c |-> 3333, d |-> 3]); a float is the same    *)
(*     record without trailing zeros;                                      *)
(*   - None in a string field is the string "None", None in a numeric      *)
(*     field is the record NoneNum;                                        *)
(*   - an exception is a record [type, msg, n, value]; a returned rate has *)
(*     type "ok" and carries the Decimal in value.                         *)
(* A coroutine runs without interruption between two suspension points;    *)
(* the only suspension points of the code modelled here are the HTTP       *)
(* request of get_rate and the call of the extraction service, so each     *)
(* action below is the code between two of them.                           *)
(***************************************************************************)
EXTENDS Integers, Sequences, FiniteSets, TLC

VARIABLES
    failure_count,  \* _circuit_breaker._failure_count
    requests,       \* number of HTTP requests sent to the rate service
    call,           \* get_rate calls made directly (tests, other callers)
    job,            \* the pipeline runs: the state dict each node hands on
    uploads,        \* the uploads directory: which upload each file name holds
    last_op,        \* history: what the last step did to the breaker
    failures_since, \* history: record_failure calls since the last success or reset
    progress_queues,\* main.progress_queues: the queue registered for each job id
    stream,         \* the event_generator calls: each with the queue it created
    runner,         \* the execute_pipeline tasks
    db,             \* the jobs table
    db_files,       \* the files table
    lock,           \* _circuit_breaker._lock: the task that holds it, or "None"
    task,           \* the breaker operations in progress, one per task
    mcp             \* the MCP tool get_exchange_rate: its cache file and its calls

vars == <<failure_count, requests, call, job, uploads, last_op, failures_since,
          progress_queues, stream, runner, db, db_files, lock, task, mcp>>

\* the state of the web application (main.py)
app_vars == <<progress_queues, stream, runner, db, db_files>>

\* the breaker's lock and the operations that take it one step at a time
lock_vars == <<lock, task>>

(***************************************************************************)
(* Bounds of the model                                                     *)
(***************************************************************************)
MaxCount == 3       \* record_failure is not called beyond this count
MaxRequests == 3    \* no HTTP request is sent beyond this number

(***************************************************************************)
(* Decimal arithmetic                                                      *)
(***************************************************************************)
Dec(c, d) == [c |-> c, d |-> d]

RECURSIVE Pow10(_)
Pow10(n) == IF n = 0 THEN 1 ELSE 10 * Pow10(n - 1)

Abs(x) == IF x < 0 THEN 0 - x ELSE x

\* float(x): the value without its exponent, i.e. without trailing zeros
RECURSIVE Float(_)
Float(x) == IF x.d > 0 /\ x.c % 10 = 0 THEN Float(Dec(x.c \div 10, x.d - 1)) ELSE x

\* Decimal(str(f)) of a float f: str() writes an integral float with one ".0"
DecimalOfStr(f) == IF f.d = 0 THEN Dec(f.c * 10, 1) ELSE f

\* the same with rounding=ROUND_HALF_EVEN
QuantizeHalfEven(x) ==
    IF x.d <= 2
    THEN Dec(x.c * Pow10(2 - x.d), 2)
    ELSE LET k == Pow10(x.d - 2)
             q == Abs(x.c) \div k
             r == Abs(x.c) % k
             up == 2 * r > k \/ (2 * r = k /\ q % 2 = 1)
             m == IF up THEN q + 1 ELSE q
         IN  Dec(IF x.c < 0 THEN 0 - m ELSE m, 2)

\* x.quantize(Decimal("0.01"), rounding=ROUND_HALF_UP)
QuantizeHalfUp(x) ==
    IF x.d <= 2
    THEN Dec(x.c * Pow10(2 - x.d), 2)
    ELSE LET k == Pow10(x.d - 2)
             q == (2 * Abs(x.c) + k) \div (2 * k)
         IN  Dec(IF x.c < 0 THEN 0 - q ELSE q, 2)

DecMul(x, y) == Dec(x.c * y.c, x.d + y.d)

(***************************************************************************)
(* CircuitBreaker                                                          *)
(***************************************************************************)
max_failures == 2

\* is_open that opens one failure late
is_open_late(count) == count > max_failures

\* is_open that opens one failure early
is_open_early(count) == count + 1 >= max_failures

is_open(count) == count >= max_failures

\* record_success that takes one failure back instead of all
record_success_decrement(count) == IF count > 0 THEN count - 1 ELSE 0

record_success(count) == 0

\* record_failure that counts a failure twice
record_failure_twice(count) == count + 2

\* record_failure that closes the breaker again once it is open
record_failure_autoreset(count) == IF count >= max_failures THEN 0 ELSE count + 1

record_failure(count) == count + 1

get_failure_count(count) == count

(***************************************************************************)
(* Dates.  A date string is a record [fmt, a, b, c]:                       *)
(*   "ymd"  "a-b-c" with a four-digit year first   (2025-07-10)            *)
(*   "dmy"  "a-b-c" with a four-digit year last    (10-07-2025)            *)
(*   "text" a string that holds no date            (invalid-date)          *)
(*   "none" the Python value None                                          *)
(* dateutil's parser reads a-b-YYYY as month-day-year unless a > 12.       *)
(***************************************************************************)
DateStr(fmt, a, b, c) == [fmt |-> fmt, a |-> a, b |-> b, c |-> c]

NoDate == DateStr("none", 0, 0, 0)

IsLeap(y) == (y % 4 = 0 /\ y % 100 # 0) \/ y % 400 = 0

DaysIn(y, m) ==
    IF m = 2 THEN (IF IsLeap(y) THEN 29 ELSE 28)
    ELSE IF m \in {4, 6, 9, 11} THEN 30 ELSE 31

ValidYMD(y, m, d) == m \in 1..12 /\ d >= 1 /\ d <= DaysIn(y, m)

\* date_parser.parse(date_str): <<ok, year, month, day>>
ParseDate(s) ==
    IF s.fmt = "ymd" THEN <<ValidYMD(s.a, s.b, s.c), s.a, s.b, s.c>>
    ELSE IF s.fmt = "dmy"
    THEN IF s.a > 31 THEN <<FALSE, 0, 0, 0>>
         ELSE IF s.a > 12 THEN <<ValidYMD(s.c, s.b, s.a), s.c, s.b, s.a>>
         ELSE <<ValidYMD(s.c, s.a, s.b), s.c, s.a, s.b>>
    ELSE <<FALSE, 0, 0, 0>>

\* _normalize_date that hands an unparsable string on as it is
_normalize_date_lenient(s) ==
    LET p == ParseDate(s)
    IN  IF p[1] THEN [ok |-> TRUE, date |-> DateStr("ymd", p[2], p[3], p[4])]
        ELSE [ok |-> TRUE, date |-> s]

\* _normalize_date: the YYYY-MM-DD string, or ValueError (ok = FALSE)
_normalize_date(s) ==
    LET p == ParseDate(s)
    IN  IF p[1] THEN [ok |-> TRUE, date |-> DateStr("ymd", p[2], p[3], p[4])]
        ELSE [ok |-> FALSE, date |-> NoDate]

(***************************************************************************)
(* Currency codes                                                          *)
(***************************************************************************)
Upper(s) ==
    CASE s = "usd" -> "USD"
      [] s = "eur" -> "EUR"
      [] s = "ils" -> "ILS"
      [] OTHER -> s

(***************************************************************************)
(* Outcomes of a call: a returned value or a raised exception              *)
(***************************************************************************)
NoneNum == [c |-> 0, d |-> 0, none |-> TRUE]

Raise(type, msg, n) == [type |-> type, msg |-> msg, n |-> n, value |-> NoneNum]

Return(v) == [type |-> "ok", msg |-> "", n |-> 0, value |-> v]

NoOutcome == [type |-> "none", msg |-> "", n |-> 0, value |-> NoneNum]

(***************************************************************************)
(* Responses of the rate service.  kind is what httpx delivers:            *)
(*   "timeout", "network_error"  the request raised                        *)
(*   "status"                    a response with a status other than 200   *)
(*   "invalid_json"              200, body is not JSON                     *)
(*   "not_object"                200, body is JSON but not an object       *)
(*   "object"                    200, body is a JSON object; rates is its  *)
(*                               "rates" map (empty when the key is absent)*)
(* A rate value is a float, or NoneNum for a JSON value that is no number. *)
(***************************************************************************)
EmptyRates == [k \in {} |-> NoneNum]

Resp(kind, rates) == [kind |-> kind, rates |-> rates]

RateValues == {Dec(3333, 3), Dec(12, 1), Dec(1005, 3), Dec(1, 0), NoneNum}

Responses ==
    {Resp(k, EmptyRates) :
        k \in {"timeout", "network_error", "status", "invalid_json", "not_object", "object"}}
    \cup {Resp("object", [k \in {cur} |-> v]) : cur \in {"EUR", "ILS"}, v \in RateValues}

(***************************************************************************)
(* get_rate, first part: up to the HTTP request (currency.py 76-96).       *)
(* The result is the exception raised, or NoOutcome when the request is    *)
(* sent.                                                                   *)
(***************************************************************************)
\* get_rate that does not ask the breaker before it sends the request
GetRateEnterUnguarded(count, date) ==
    IF ~_normalize_date(date).ok
    THEN Raise("ValueError", "Invalid date format", 0)
    ELSE NoOutcome

\* get_rate up to the request, with the breaker check at its start
GetRateEnter(count, date) ==
    IF is_open(count)
    THEN Raise("FrankfurterDown", "Frankfurter API is down", get_failure_count(count) + 1)
    ELSE IF ~_normalize_date(date).ok
    THEN Raise("ValueError", "Invalid date format", 0)
    ELSE NoOutcome

\* the URL of the request
RateUrl(date, from_, to_) ==
    [date |-> _normalize_date(date).date, from |-> Upper(from_), to |-> Upper(to_)]

(***************************************************************************)
(* get_rate, second part: from the response on (currency.py 98-129).       *)
(* The result is the new failure count, the breaker operation performed    *)
(* and the outcome of the call.                                            *)
(***************************************************************************)
Done(count, op, out) == [count |-> count, op |-> op, out |-> out]

GetRateFinish(count, url, resp) ==
    CASE resp.kind = "timeout" ->
            Done(record_failure(count), "record_failure", Raise("Exception", "Request timeout", 0))
      [] resp.kind = "network_error" ->
            Done(record_failure(count), "record_failure", Raise("Exception", "Network error", 0))
      [] resp.kind = "status" ->
            Done(record_failure(count), "record_failure",
                 Raise("Exception", "Failed to fetch exchange rate", 0))
      [] resp.kind = "invalid_json" ->
            Done(record_failure(count), "record_failure",
                 Raise("Exception", "Invalid JSON response", 0))
      [] resp.kind = "not_object" ->
            Done(count, "none", Raise("AttributeError", "object has no attribute get", 0))
      [] OTHER ->
            IF url.to \notin DOMAIN resp.rates
            THEN Done(record_failure(count), "record_failure",
                      Raise("Exception", "Currency not found in response", 0))
            ELSE LET rate == resp.rates[url.to]
                 IN  IF rate = NoneNum
                     THEN Done(record_success(count), "record_success",
                               Raise("InvalidOperation", "ConversionSyntax", 0))
                     ELSE Done(record_success(count), "record_success",
                               Return(QuantizeHalfUp(DecimalOfStr(rate))))

(***************************************************************************)
(* Direct callers of the currency module                                   *)
(***************************************************************************)
Callers == {"c1", "c2"}

Dates ==
    {DateStr("ymd", 2025, 7, 10), DateStr("dmy", 10, 7, 2025), DateStr("dmy", 32, 13, 2025),
     DateStr("text", 0, 0, 0)}

FromCodes == {"USD", "usd"}

ToCodes == {"EUR", "ils"}

NoUrl == [date |-> NoDate, from |-> "None", to |-> "None"]

NoResp == Resp("none", EmptyRates)

\* a call that has ended (or was never made): its date argument, the URL it
\* requested, the response it received and its outcome
Idle(date, url, resp, out) ==
    [pc |-> "idle", date |-> date, url |-> url, resp |-> resp, ret |-> out]

\* a call suspended in client.get(url)
Waiting(date, url) ==
    [pc |-> "waiting", date |-> date, url |-> url, resp |-> NoResp, ret |-> NoOutcome]

\* the number of record_failure calls since the last record_success or reset,
\* counted from the operations performed
CountOp(n, op) ==
    CASE op = "record_failure" -> n + 1
      [] op \in {"record_success", "reset"} -> 0
      [] OTHER -> n

\* get_rate(date, from_, to_) is called and runs up to its first suspension
GetRateCall(c, date, from_, to_) ==
    /\ call[c].pc = "idle"
    /\ LET out == GetRateEnter(failure_count, date)
       IN  IF out = NoOutcome
           THEN /\ requests < MaxRequests
                /\ requests' = requests + 1
                /\ call' = [call EXCEPT ![c] = Waiting(date, RateUrl(date, from_, to_))]
                /\ last_op' = "request"
           ELSE /\ call' = [call EXCEPT ![c] = Idle(date, NoUrl, NoResp, out)]
                /\ last_op' = IF out.type = "FrankfurterDown" THEN "rejected" ELSE "invalid"
                /\ UNCHANGED requests
    /\ UNCHANGED <<failure_count, failures_since, job, uploads>>
    /\ UNCHANGED app_vars
    /\ UNCHANGED lock_vars
    /\ UNCHANGED mcp

\* the response arrives and get_rate runs to its end
GetRateReturn(c, resp) ==
    /\ call[c].pc = "waiting"
    /\ LET r == GetRateFinish(failure_count, call[c].url, resp)
       IN  /\ r.count <= MaxCount
           /\ failure_count' = r.count
           /\ failures_since' = CountOp(failures_since, r.op)
           /\ call' = [call EXCEPT ![c] = Idle(call[c].date, call[c].url, resp, r.out)]
           /\ last_op' = r.op
    /\ UNCHANGED <<requests, job, uploads>>
    /\ UNCHANGED app_vars
    /\ UNCHANGED lock_vars
    /\ UNCHANGED mcp

\* _circuit_breaker.record_failure() called directly
RecordFailure ==
    /\ failure_count < MaxCount
    /\ failure_count' = record_failure(failure_count)
    /\ failures_since' = CountOp(failures_since, "record_failure")
    /\ last_op' = "record_failure"
    /\ UNCHANGED <<requests, call, job, uploads>>
    /\ UNCHANGED app_vars
    /\ UNCHANGED lock_vars
    /\ UNCHANGED mcp

\* _circuit_breaker.record_success() called directly
RecordSuccess ==
    /\ failure_count' = record_success(failure_count)
    /\ failures_since' = CountOp(failures_since, "record_success")
    /\ last_op' = "record_success"
    /\ UNCHANGED <<requests, call, job, uploads>>
    /\ UNCHANGED app_vars
    /\ UNCHANGED lock_vars
    /\ UNCHANGED mcp

\* reset_circuit_breaker(): the module's breaker is replaced by a new one
reset_circuit_breaker ==
    /\ failure_count' = 0
    /\ failures_since' = CountOp(failures_since, "reset")
    /\ last_op' = "reset"
    /\ UNCHANGED <<requests, call, job, uploads>>
    /\ UNCHANGED app_vars
    /\ UNCHANGED lock_vars
    /\ UNCHANGED mcp

(***************************************************************************)
(* The breaker's methods step by step (currency.py 19-37).  Each is        *)
(*     async with self._lock: <one statement on self._failure_count>       *)
(* On the event loop a method runs from its call to its return without a   *)
(* suspension unless the lock is taken; here the steps of the tasks are    *)
(* interleaved freely (acquire, read, write, release), which covers every  *)
(* schedule the event loop can produce and more.  pc of a task:            *)
(*     idle -> acquire -> body -> write -> release -> idle                 *)
(* ret is the value returned: the count, 1/0 for True/False, -1 for None.  *)
(***************************************************************************)
\* the tasks that call the breaker's methods
Tasks == {"t1", "t2"}

BreakerOps == {"is_open", "record_success", "record_failure", "get_failure_count"}

\* a task that is in none of the breaker's methods
NoTask == [pc |-> "idle", op |-> "None", local |-> 0, ret |-> -1]

\* the pcs between __aenter__ and __aexit__ of the lock
InCriticalSection == {"body", "write", "release"}

\* a task calls a method of the breaker
BreakerCall(t, op) ==
    /\ task[t].pc = "idle"
    /\ task' = [task EXCEPT ![t] = [pc |-> "acquire", op |-> op, local |-> 0, ret |-> -1]]
    /\ UNCHANGED <<failure_count, failures_since, requests, call, job, uploads, last_op, lock>>
    /\ UNCHANGED app_vars
    /\ UNCHANGED mcp

\* an __aenter__ that does not wait for the lock to be free
AcquireUnlocked(t) ==
    /\ task[t].pc = "acquire"
    /\ lock' = t
    /\ task' = [task EXCEPT ![t].pc = "body"]
    /\ UNCHANGED <<failure_count, failures_since, requests, call, job, uploads, last_op>>
    /\ UNCHANGED app_vars
    /\ UNCHANGED mcp

\* async with self._lock, __aenter__: the task goes on when the lock is free
Acquire(t) ==
    /\ task[t].pc = "acquire"
    /\ lock = "None"
    /\ lock' = t
    /\ task' = [task EXCEPT ![t].pc = "body"]
    /\ UNCHANGED <<failure_count, failures_since, requests, call, job, uploads, last_op>>
    /\ UNCHANGED app_vars
    /\ UNCHANGED mcp

\* the statement of the method reads self._failure_count
BodyRead(t) ==
    /\ task[t].pc = "body"
    /\ task' = [task EXCEPT ![t].local = failure_count, ![t].pc = "write"]
    /\ UNCHANGED <<failure_count, failures_since, requests, call, job, uploads, last_op, lock>>
    /\ UNCHANGED app_vars
    /\ UNCHANGED mcp

\* the statement stores its result, or has the value it returns
BodyWrite(t) ==
    /\ task[t].pc = "write"
    /\ LET n == task[t].local
           op == task[t].op
       IN  /\ op = "record_failure" => n < MaxCount
           /\ failure_count' = CASE op = "record_failure" -> record_failure(n)
                                  [] op = "record_success" -> record_success(n)
                                  [] OTHER -> failure_count
           /\ task' = [task EXCEPT
                    ![t].ret = CASE op = "is_open" -> IF is_open(n) THEN 1 ELSE 0
                                 [] op = "get_failure_count" -> get_failure_count(n)
                                 [] OTHER -> -1,
                    ![t].pc = "release"]
    /\ UNCHANGED <<failures_since, requests, call, job, uploads, last_op, lock>>
    /\ UNCHANGED app_vars
    /\ UNCHANGED mcp

\* __aexit__: the lock is released and the method returns
Release(t) ==
    /\ task[t].pc = "release"
    /\ lock' = "None"
    /\ task' = [task EXCEPT ![t].pc = "idle"]
    /\ failures_since' = CountOp(failures_since, task[t].op)
    /\ last_op' = task[t].op
    /\ UNCHANGED <<failure_count, requests, call, job, uploads>>
    /\ UNCHANGED app_vars
    /\ UNCHANGED mcp

(***************************************************************************)
(* The pipeline: upload -> extract -> check_currency -> convert -> excel   *)
(* (langgraph_nodes/pipeline.py).  The state of a run is the dict the      *)
(* nodes hand on: files, invoices, target_currency.                        *)
(***************************************************************************)
JobIds == {"j1", "j2"}

Filenames == {"a.pdf", "b.pdf"}

\* nothing stored under a name of the uploads directory
NoFile == [job |-> "None", idx |-> 0]

\* an entry of the batch as the caller passes it: with file_data (main.py),
\* with a file_path, or with neither (tests/test_pipeline.py)
InputFile(filename, kind) ==
    [filename |-> filename,
     has_data |-> kind = "data",
     file_path |-> IF kind = "path" THEN filename ELSE "None",
     status |-> "None",
     error_message |-> "None",
     read |-> NoFile]

\* upload.run: the files list it returns
upload_files(files) ==
    [i \in DOMAIN files |->
        IF files[i].has_data
        THEN [filename |-> files[i].filename,
              has_data |-> FALSE,
              file_path |-> files[i].filename,
              status |-> "uploaded",
              error_message |-> "None",
              read |-> NoFile]
        ELSE files[i]]

\* upload.run: the uploads directory after it wrote the files in order
RECURSIVE upload_write(_, _, _, _)
upload_write(dir, j, files, i) ==
    IF i > Len(files) THEN dir
    ELSE upload_write(
            IF files[i].has_data
            THEN [dir EXCEPT ![files[i].filename] = [job |-> j, idx |-> i]]
            ELSE dir,
            j, files, i + 1)

(***************************************************************************)
(* Invoices: what extract_invoice returns.                                 *)
(*   date   the InvoiceDate's value_date as <<y, m, d>>, or <<>> for None  *)
(*   total  "None" (no InvoiceTotal), "novalue" (value_currency is None)   *)
(*          or "value" with currency and amount                            *)
(*   conv   the attributes convert.run sets on the invoice                 *)
(***************************************************************************)
NoConv == [set |-> FALSE, converted_amount |-> NoneNum, exchange_rate |-> NoneNum,
           status |-> "None"]

Invoice(date, total, currency, amount) ==
    [filename |-> "unknown", date |-> date, total |-> total, currency |-> currency,
     amount |-> amount, conv |-> NoConv]

\* the first index from i on of a file that has a file_path
RECURSIVE NextWithPath(_, _)
NextWithPath(files, i) ==
    IF i > Len(files) \/ files[i].file_path # "None" THEN i
    ELSE NextWithPath(files, i + 1)

\* extract_invoice(file_path) opens the file at file_path and reads it
\* (azure_adapter.py 105-107): read records whose upload the file holds then
ReadUpload(files, i, dir) ==
    IF i > Len(files) THEN files
    ELSE [files EXCEPT ![i].read = dir[files[i].file_path]]

\* extract.run, one file: out is the outcome of extract_invoice(file_path)
extract_file(file, out) ==
    IF out.type = "ok"
    THEN [file EXCEPT !.status = "extracted"]
    ELSE IF out.type = "None"
    THEN [file EXCEPT !.status = "failed", !.error_message = "Failed to extract invoice data"]
    ELSE [file EXCEPT !.status = "failed", !.error_message = out.msg]

(***************************************************************************)
(* check_currency.run: the files list it builds from the invoices          *)
(***************************************************************************)
DefaultDate == DateStr("ymd", 2024, 1, 1)

\* value_date.strftime("%d-%m-%Y")
FormatDMY(date) == DateStr("dmy", date[3], date[2], date[1])

check_currency_file(invoice) ==
    [filename |-> invoice.filename,
     status |-> IF invoice.total = "value" THEN "ready_for_conversion" ELSE "failed",
     error |-> IF invoice.total = "value" THEN [text |-> "None", cause |-> NoOutcome]
               ELSE [text |-> "No currency information found in invoice", cause |-> NoOutcome],
     src_currency |-> IF invoice.total = "value" THEN invoice.currency ELSE "None",
     invoice_total |-> IF invoice.total = "value" THEN invoice.amount ELSE NoneNum,
     invoice_date |-> IF invoice.date # <<>> THEN FormatDMY(invoice.date) ELSE DefaultDate,
     exchange_rate |-> NoneNum,
     converted_total |-> NoneNum,
     lookup |-> NoOutcome]

check_currency_files(invoices) == [i \in DOMAIN invoices |-> check_currency_file(invoices[i])]

(***************************************************************************)
(* convert.run                                                             *)
(***************************************************************************)
DefaultTargetCurrency == "ILS"

\* input.get("target_currency") or os.getenv("DEFAULT_TARGET_CURRENCY", "ILS")
ResolveTarget(t) == IF t \in {"None", ""} THEN DefaultTargetCurrency ELSE t

\* a check that does not ask for the date
MissingFieldsDateOptional(f) ==
    \/ f.src_currency \in {"None", ""}
    \/ f.invoice_total = NoneNum
    \/ f.invoice_total.c = 0

\* not all([invoice_date, src_currency, invoice_total])
MissingFields(f) ==
    \/ f.invoice_date.fmt = "none"
    \/ f.src_currency \in {"None", ""}
    \/ f.invoice_total = NoneNum
    \/ f.invoice_total.c = 0

MarkMissing(f) ==
    [f EXCEPT !.status = "failed",
              !.error = [text |-> "Missing required fields: invoice_date, src_currency, or invoice_total",
                         cause |-> NoOutcome]]

SameCurrency(f) ==
    [f EXCEPT !.exchange_rate = Dec(1, 0), !.converted_total = Float(f.invoice_total)]

\* an except branch that records the lookup's exception and marks nothing
ConvertFailedSilently(f, exc) == [f EXCEPT !.lookup = exc]

\* the except branch: the file is marked failed, the loop goes on
ConvertFailed(f, exc) ==
    [f EXCEPT !.status = "failed",
              !.error = [text |-> "Currency conversion failed", cause |-> exc],
              !.lookup = exc]

\* the product rounded half to even, as quantize does without a rounding argument
ConvertedHalfEven(f, out) ==
    LET original_amount == DecimalOfStr(f.invoice_total)
        converted_amount == QuantizeHalfEven(DecMul(original_amount, out.value))
    IN  [f EXCEPT !.exchange_rate = Float(out.value),
                  !.converted_total = Float(converted_amount),
                  !.lookup = out]

\* the lookup returned: convert.py 60-65
Converted(f, out) ==
    LET original_amount == DecimalOfStr(f.invoice_total)
        converted_amount == QuantizeHalfUp(DecMul(original_amount, out.value))
    IN  [f EXCEPT !.exchange_rate = Float(out.value),
                  !.converted_total = Float(converted_amount),
                  !.lookup = out]

\* a loop with the try around it instead of inside it: the first exception of
\* a lookup ends the loop
RECURSIVE ConvertFromAbort(_, _, _, _)
ConvertFromAbort(files, i, target, count) ==
    IF i > Len(files) THEN [files |-> files, idx |-> i, waiting |-> FALSE]
    ELSE LET f == files[i]
         IN  IF MissingFields(f)
             THEN ConvertFromAbort([files EXCEPT ![i] = MarkMissing(f)], i + 1, target, count)
             ELSE IF Upper(f.src_currency) = Upper(target)
             THEN ConvertFromAbort([files EXCEPT ![i] = SameCurrency(f)], i + 1, target, count)
             ELSE LET out == GetRateEnter(count, f.invoice_date)
                  IN  IF out = NoOutcome
                      THEN [files |-> files, idx |-> i, waiting |-> TRUE]
                      ELSE [files |-> [files EXCEPT ![i] = ConvertFailed(f, out)],
                            idx |-> Len(files) + 1, waiting |-> FALSE]

\* the loop over the files from index i on, up to the next HTTP request or
\* to the end of the list
RECURSIVE ConvertFrom(_, _, _, _)
ConvertFrom(files, i, target, count) ==
    IF i > Len(files) THEN [files |-> files, idx |-> i, waiting |-> FALSE]
    ELSE LET f == files[i]
         IN  IF MissingFields(f)
             THEN ConvertFrom([files EXCEPT ![i] = MarkMissing(f)], i + 1, target, count)
             ELSE IF Upper(f.src_currency) = Upper(target)
             THEN ConvertFrom([files EXCEPT ![i] = SameCurrency(f)], i + 1, target, count)
             ELSE LET out == GetRateEnter(count, f.invoice_date)
                  IN  IF out = NoOutcome
                      THEN [files |-> files, idx |-> i, waiting |-> TRUE]
                      ELSE ConvertFrom([files EXCEPT ![i] = ConvertFailed(f, out)],
                                       i + 1, target, count)

\* the index of the last file named name (a later dict entry replaces an earlier)
LastNamed(files, name) ==
    CHOOSE i \in DOMAIN files :
        /\ files[i].filename = name
        /\ \A k \in DOMAIN files : files[k].filename = name => k <= i

\* the conversion results are copied to the invoices by filename
ApplyConversion(files, invoices) ==
    [n \in DOMAIN invoices |->
        LET name == invoices[n].filename
        IN  IF \E i \in DOMAIN files : files[i].filename = name /\ name \notin {"None", ""}
            THEN LET f == files[LastNamed(files, name)]
                 IN  [invoices[n] EXCEPT !.conv =
                         [set |-> TRUE,
                          converted_amount |-> f.converted_total,
                          exchange_rate |-> f.exchange_rate,
                          status |-> IF f.status = "None" THEN "success" ELSE f.status]]
            ELSE invoices[n]]

(***************************************************************************)
(* A run of the pipeline.  pc is the node that runs next; "extracting" and *)
(* "converting" are a node suspended in a call of an external service.     *)
(***************************************************************************)
NoJob ==
    [pc |-> "absent", target |-> "None", input |-> <<>>, files |-> <<>>, invoices |-> <<>>,
     idx |-> 0, url |-> NoUrl, row_count |-> 0, rows |-> <<>>]

NewJob(pc, target, files, invoices) ==
    [pc |-> pc, target |-> target, input |-> files, files |-> files, invoices |-> invoices,
     idx |-> 0, url |-> NoUrl, row_count |-> 0, rows |-> <<>>]

\* upload.run
Upload(j) ==
    /\ job[j].pc = "upload"
    /\ job' = [job EXCEPT ![j].files = upload_files(job[j].files), ![j].pc = "extract"]
    /\ uploads' = upload_write(uploads, j, job[j].files, 1)
    /\ UNCHANGED <<failure_count, failures_since, requests, call, last_op>>
    /\ UNCHANGED app_vars
    /\ UNCHANGED lock_vars
    /\ UNCHANGED mcp

\* extract.run starts: files without a file_path are passed over
ExtractStart(j) ==
    /\ job[j].pc = "extract"
    /\ LET i == NextWithPath(job[j].files, 1)
       IN  job' = [job EXCEPT ![j].files = ReadUpload(@, i, uploads),
                              ![j].invoices = <<>>,
                              ![j].idx = i,
                              ![j].pc = IF i > Len(job[j].files) THEN "check_currency"
                                        ELSE "extracting"]
    /\ UNCHANGED <<failure_count, failures_since, requests, call, last_op, uploads>>
    /\ UNCHANGED app_vars
    /\ UNCHANGED lock_vars
    /\ UNCHANGED mcp
\* a loop without the try: what extract_invoice raises ends the run
ExtractReturnAbort(j, out) ==
    /\ job[j].pc = "extracting"
    /\ LET i == job[j].idx
           file == job[j].files[i]
           next == NextWithPath(job[j].files, i + 1)
       IN  job' = [job EXCEPT
                ![j].files = IF out.type = "Exception" THEN @
                             ELSE ReadUpload([@ EXCEPT ![i] = extract_file(file, out)], next, uploads),
                ![j].invoices = IF out.type = "ok"
                                THEN Append(@, [out.value EXCEPT !.filename = file.filename])
                                ELSE @,
                ![j].idx = IF out.type = "Exception" THEN @ ELSE next,
                ![j].pc = IF out.type = "Exception" THEN "raised"
                          ELSE IF next > Len(job[j].files) THEN "check_currency" ELSE "extracting"]
    /\ UNCHANGED <<failure_count, failures_since, requests, call, last_op, uploads>>
    /\ UNCHANGED app_vars
    /\ UNCHANGED lock_vars
    /\ UNCHANGED mcp

\* extract_invoice returns (or raises) for the file at idx
ExtractReturn(j, out) ==
    /\ job[j].pc = "extracting"
    /\ LET i == job[j].idx
           file == job[j].files[i]
           next == NextWithPath(job[j].files, i + 1)
       IN  job' = [job EXCEPT
                ![j].files = ReadUpload([@ EXCEPT ![i] = extract_file(file, out)], next, uploads),
                ![j].invoices = IF out.type = "ok"
                                THEN Append(@, [out.value EXCEPT !.filename = file.filename])
                                ELSE @,
                ![j].idx = next,
                ![j].pc = IF next > Len(job[j].files) THEN "check_currency" ELSE "extracting"]
    /\ UNCHANGED <<failure_count, failures_since, requests, call, last_op, uploads>>
    /\ UNCHANGED app_vars
    /\ UNCHANGED lock_vars
    /\ UNCHANGED mcp
\* an edge from check_currency straight to excel: convert is passed over
CheckCurrencySkipConvert(j) ==
    /\ job[j].pc = "check_currency"
    /\ job' = [job EXCEPT ![j].files = check_currency_files(job[j].invoices),
                          ![j].pc = "excel"]
    /\ UNCHANGED <<failure_count, failures_since, requests, call, last_op, uploads>>
    /\ UNCHANGED app_vars
    /\ UNCHANGED lock_vars
    /\ UNCHANGED mcp

\* check_currency.run
CheckCurrency(j) ==
    /\ job[j].pc = "check_currency"
    /\ job' = [job EXCEPT ![j].files = check_currency_files(job[j].invoices),
                          ![j].pc = "convert"]
    /\ UNCHANGED <<failure_count, failures_since, requests, call, last_op, uploads>>
    /\ UNCHANGED app_vars
    /\ UNCHANGED lock_vars
    /\ UNCHANGED mcp

\* convert.run from file i on: up to the next request, or to its end
ConvertContinue(j, files, i, count) ==
    LET r == ConvertFrom(files, i, ResolveTarget(job[j].target), count)
    IN  IF r.waiting
        THEN /\ requests < MaxRequests
             /\ requests' = requests + 1
             /\ job' = [job EXCEPT
                    ![j].files = r.files,
                    ![j].idx = r.idx,
                    ![j].url = RateUrl(r.files[r.idx].invoice_date, r.files[r.idx].src_currency,
                                       ResolveTarget(job[j].target)),
                    ![j].pc = "converting"]
        ELSE /\ requests' = requests
             /\ job' = [job EXCEPT
                    ![j].files = r.files,
                    ![j].idx = r.idx,
                    ![j].url = NoUrl,
                    ![j].invoices = ApplyConversion(r.files, @),
                    ![j].pc = "excel"]
\* a run that starts with a breaker of its own: the failures of other runs
\* are not seen
ConvertStartOwnBreaker(j) ==
    /\ job[j].pc = "convert"
    /\ ConvertContinue(j, job[j].files, 1, 0)
    /\ last_op' = IF job'[j].pc = "converting" THEN "request" ELSE last_op
    /\ UNCHANGED <<failure_count, failures_since, call, uploads>>
    /\ UNCHANGED app_vars
    /\ UNCHANGED lock_vars
    /\ UNCHANGED mcp

\* convert.run starts
ConvertStart(j) ==
    /\ job[j].pc = "convert"
    /\ ConvertContinue(j, job[j].files, 1, failure_count)
    /\ last_op' = IF job'[j].pc = "converting" THEN "request" ELSE last_op
    /\ UNCHANGED <<failure_count, failures_since, call, uploads>>
    /\ UNCHANGED app_vars
    /\ UNCHANGED lock_vars
    /\ UNCHANGED mcp
\* a loop that goes on with the count read before the response was recorded
ConvertReturnStaleCount(j, resp) ==
    /\ job[j].pc = "converting"
    /\ LET i == job[j].idx
           f == job[j].files[i]
           r == GetRateFinish(failure_count, job[j].url, resp)
           done == IF r.out.type = "ok" THEN Converted(f, r.out) ELSE ConvertFailed(f, r.out)
       IN  /\ r.count <= MaxCount
           /\ failure_count' = r.count
           /\ failures_since' = CountOp(failures_since, r.op)
           /\ ConvertContinue(j, [job[j].files EXCEPT ![i] = done], i + 1, failure_count)
           /\ last_op' = r.op
    /\ UNCHANGED <<call, uploads>>
    /\ UNCHANGED app_vars
    /\ UNCHANGED lock_vars
    /\ UNCHANGED mcp

\* the response for the file at idx arrives; convert.run goes on
ConvertReturn(j, resp) ==
    /\ job[j].pc = "converting"
    /\ LET i == job[j].idx
           f == job[j].files[i]
           r == GetRateFinish(failure_count, job[j].url, resp)
           done == IF r.out.type = "ok" THEN Converted(f, r.out) ELSE ConvertFailed(f, r.out)
       IN  /\ r.count <= MaxCount
           /\ failure_count' = r.count
           /\ failures_since' = CountOp(failures_since, r.op)
           /\ ConvertContinue(j, [job[j].files EXCEPT ![i] = done], i + 1, r.count)
           /\ last_op' = r.op
    /\ UNCHANGED <<call, uploads>>
    /\ UNCHANGED app_vars
    /\ UNCHANGED lock_vars
    /\ UNCHANGED mcp

(***************************************************************************)
(* excel.run: the data rows of the report.  A cell holds a text, a number, *)
(* a number formatted to four decimals, or None (an empty cell); the       *)
(* invoice suffix and the vendor name, taken from fields of the invoice    *)
(* that play no part in the conversion, are left out.  item is the         *)
(* _filename of the invoice a row is written for.                          *)
(***************************************************************************)
TextCell(s) == [kind |-> "text", text |-> s, num |-> NoneNum]

NumberCell(x) == [kind |-> "number", text |-> "", num |-> x]

\* f"{exchange_rate:.4f}"
Fixed4Cell(x) == [kind |-> "fixed4", text |-> "", num |-> x]

NoneCell == [kind |-> "None", text |-> "", num |-> NoneNum]

\* the value of an attribute that is a float or None
ValueCell(x) == IF x = NoneNum THEN NoneCell ELSE NumberCell(x)

\* the text "ERROR" in the date column
ErrorDate == DateStr("text", 0, 0, 0)

\* input.get("target_currency", "USD")
ExcelTarget(t) == IF t = "None" THEN "USD" ELSE t

\* the row of one invoice: excel.py 84-126
excel_row(invoice, target_currency) ==
    LET date == IF invoice.date # <<>> THEN FormatDMY(invoice.date) ELSE ErrorDate
        blank == [item |-> invoice.filename, date |-> date,
                  target_total |-> TextCell("N/A"), foreign_total |-> TextCell(""),
                  foreign_currency |-> TextCell(""), exchange_rate |-> TextCell("")]
    IN  IF invoice.total # "value" THEN blank
        ELSE IF invoice.currency = target_currency
        THEN [blank EXCEPT !.target_total = ValueCell(invoice.amount)]
        ELSE [blank EXCEPT
                !.foreign_total = ValueCell(invoice.amount),
                !.foreign_currency = TextCell(invoice.currency),
                !.target_total = IF invoice.conv.set THEN ValueCell(invoice.conv.converted_amount)
                                 ELSE TextCell("N/A"),
                !.exchange_rate = IF ~invoice.conv.set THEN TextCell("N/A")
                                  ELSE IF invoice.conv.exchange_rate = NoneNum THEN NoneCell
                                  ELSE Fixed4Cell(invoice.conv.exchange_rate)]

\* the placeholder row written when there is no invoice: excel.py 129-134
error_row ==
    [item |-> "", date |-> ErrorDate, target_total |-> TextCell("N/A"),
     foreign_total |-> TextCell("N/A"), foreign_currency |-> TextCell("N/A"),
     exchange_rate |-> TextCell("N/A")]

excel_rows(invoices, target_currency) ==
    IF Len(invoices) = 0 THEN <<error_row>>
    ELSE [i \in DOMAIN invoices |-> excel_row(invoices[i], target_currency)]

\* excel.run: the rows it writes and the number of data rows it reports
Excel(j) ==
    /\ job[j].pc = "excel"
    /\ job' = [job EXCEPT ![j].row_count = IF Len(job[j].invoices) > 0
                                           THEN Len(job[j].invoices) ELSE 1,
                          ![j].rows = excel_rows(job[j].invoices, ExcelTarget(job[j].target)),
                          ![j].pc = "done"]
    /\ UNCHANGED <<failure_count, failures_since, requests, call, last_op, uploads>>
    /\ UNCHANGED app_vars
    /\ UNCHANGED lock_vars
    /\ UNCHANGED mcp

(***************************************************************************)
(* The web application (app/main.py).                                      *)
(*   process_invoices   stores the job record and creates the task that    *)
(*                      runs execute_pipeline                              *)
(*   execute_pipeline   looks up the job's queue in progress_queues, puts  *)
(*                      progress events on it and runs the pipeline        *)
(*   event_generator    creates a queue, registers it under the job id and *)
(*                      hands the events on to the client                  *)
(* A put on the unbounded asyncio.Queue does not suspend, so execute_pipe- *)
(* line runs from its start to the first suspension of the pipeline in one *)
(* step, and from the pipeline's end to its own end in another.            *)
(***************************************************************************)
Streams == {"s1", "s2"}

\* a message of a progress event: a fixed text and, for the error event, str(e)
Message(text, cause) == [text |-> text, cause |-> cause]

\* a progress event; the error events carry job_id, status and message only
\* (current_step "None" and -1 stand for the absent keys)
Event(status, current_step, processed, total, percentage, message) ==
    [status |-> status, current_step |-> current_step, processed |-> processed,
     total |-> total, percentage |-> percentage, message |-> message]

StartEvent(n) == Event("processing", "uploading", 0, n, 0, Message("Starting pipeline execution", ""))

ExtractingEvent(n) == Event("processing", "extracting", 0, n, 25, Message("Extracting invoice data", ""))

ConversionEvent(n) ==
    Event("processing", "currency_conversion", n, n, 75, Message("Converting currencies", ""))

CompletedEvent(n) ==
    Event("completed", "excel_generation", n, n, 100, Message("Excel report generated successfully", ""))

TimeoutEvent == Event("error", "None", -1, -1, -1, Message("Pipeline execution timed out", ""))

ErrorEvent(exc) == Event("error", "None", -1, -1, -1, Message("Pipeline execution failed", exc.msg))

\* history: an event as the task emitted it, with the node the pipeline was at
Emitted(ev, at) == [event |-> ev, at |-> at]

NoStream == [pc |-> "idle", job |-> "None", queue |-> <<>>, got |-> <<>>]

NoRunner == [pc |-> "absent", queue |-> "None", outcome |-> "none", exc |-> NoOutcome,
             emitted |-> <<>>]

\* a row of the files table (models.File)
FileRow(filename, status, target_currency) ==
    [filename |-> filename, status |-> status, original_currency |-> "None",
     target_currency |-> target_currency, error_message |-> "None",
     converted_total |-> NoneNum, exchange_rate |-> NoneNum]

\* a row of the jobs table (models.Job); status "None": no row
JobRow(status, processed, total) == [status |-> status, processed |-> processed, total |-> total]

NoRow == JobRow("None", 0, 0)

\* the exceptions a node can raise: upload.run and excel.run write files
\* (OSError, of which TimeoutError is a subclass that asyncio.TimeoutError
\* names since Python 3.11)
StageExceptions ==
    {Raise("OSError", "No space left on device", 0),
     Raise("TimeoutError", "Connection timed out", 0)}

\* the nodes that can raise
RaisingNodes == {"upload", "excel"}

\* the suspension points of the pipeline, where the timeout of wait_for can
\* cancel it
SuspendedNodes == {"extracting", "converting"}

\* progress_queue.put for each event of evs
PutAll(q, evs) == [stream EXCEPT ![q].queue = @ \o evs]

\* POST /process-invoices: the job row is stored and the task created
process_invoices(j, files, target_currency) ==
    /\ runner[j].pc = "absent"
    /\ job[j].pc = "absent"
    /\ db[j] = NoRow
    /\ db' = [db EXCEPT ![j] = JobRow("processing", 0, Len(files))]
    /\ db_files' = [db_files EXCEPT ![j] =
            [i \in DOMAIN files |-> FileRow(files[i].filename, "uploaded", target_currency)]]
    /\ job' = [job EXCEPT ![j] = NewJob("submitted", target_currency, files, <<>>)]
    /\ runner' = [runner EXCEPT ![j].pc = "created"]
    /\ UNCHANGED lock_vars
    /\ UNCHANGED mcp
    /\ UNCHANGED <<failure_count, failures_since, requests, call, last_op, uploads,
                   progress_queues, stream>>

\* execute_pipeline starts: without a registered queue it returns at once,
\* else it puts the first two events and invokes the pipeline
ExecuteStart(j) ==
    /\ runner[j].pc = "created"
    /\ LET q == progress_queues[j]
           n == Len(job[j].input)
       IN  IF q = "None"
           THEN /\ runner' = [runner EXCEPT ![j].pc = "returned", ![j].outcome = "no_queue"]
                /\ UNCHANGED <<stream, job>>
           ELSE /\ stream' = PutAll(q, <<StartEvent(n), ExtractingEvent(n)>>)
                /\ runner' = [runner EXCEPT
                        ![j].pc = "running",
                        ![j].queue = q,
                        ![j].emitted = <<Emitted(StartEvent(n), job[j].pc),
                                         Emitted(ExtractingEvent(n), job[j].pc)>>]
                /\ job' = [job EXCEPT ![j].pc = "upload"]
    /\ UNCHANGED lock_vars
    /\ UNCHANGED mcp
    /\ UNCHANGED db_files
    /\ UNCHANGED <<failure_count, failures_since, requests, call, last_op, uploads,
                   progress_queues, db>>

\* an end of the run that reports a job with a failed item as an error
ExecuteFinishStrict(j) ==
    /\ runner[j].pc = "running"
    /\ job[j].pc = "done"
    /\ LET n == Len(job[j].input)
           failed == \E i \in DOMAIN job[j].files : job[j].files[i].status = "failed"
       IN  /\ stream' = PutAll(runner[j].queue, <<ConversionEvent(n), CompletedEvent(n)>>)
           /\ runner' = [runner EXCEPT
                   ![j].pc = "returned",
                   ![j].outcome = "completed",
                   ![j].emitted = @ \o <<Emitted(ConversionEvent(n), job[j].pc),
                                          Emitted(CompletedEvent(n), job[j].pc)>>]
           /\ db' = [db EXCEPT ![j] = JobRow(IF failed THEN "error" ELSE "completed", n, @.total)]
    /\ UNCHANGED lock_vars
    /\ UNCHANGED mcp
    /\ UNCHANGED db_files
    /\ UNCHANGED <<failure_count, failures_since, requests, call, last_op, uploads,
                   progress_queues, job>>
\* an end of the run that stores the number of extracted invoices as total
ExecuteFinishRecount(j) ==
    /\ runner[j].pc = "running"
    /\ job[j].pc = "done"
    /\ LET n == Len(job[j].input)
       IN  /\ stream' = PutAll(runner[j].queue, <<ConversionEvent(n), CompletedEvent(n)>>)
           /\ runner' = [runner EXCEPT
                   ![j].pc = "returned",
                   ![j].outcome = "completed",
                   ![j].emitted = @ \o <<Emitted(ConversionEvent(n), job[j].pc),
                                          Emitted(CompletedEvent(n), job[j].pc)>>]
           /\ db' = [db EXCEPT ![j] = JobRow("completed", n, Len(job[j].invoices))]
    /\ UNCHANGED lock_vars
    /\ UNCHANGED mcp
    /\ UNCHANGED db_files
    /\ UNCHANGED <<failure_count, failures_since, requests, call, last_op, uploads,
                   progress_queues, job>>

\* pipeline.ainvoke returned: the last two events, then the job row
ExecuteFinish(j) ==
    /\ runner[j].pc = "running"
    /\ job[j].pc = "done"
    /\ LET n == Len(job[j].input)
       IN  /\ stream' = PutAll(runner[j].queue, <<ConversionEvent(n), CompletedEvent(n)>>)
           /\ runner' = [runner EXCEPT
                   ![j].pc = "returned",
                   ![j].outcome = "completed",
                   ![j].emitted = @ \o <<Emitted(ConversionEvent(n), job[j].pc),
                                          Emitted(CompletedEvent(n), job[j].pc)>>]
           /\ db' = [db EXCEPT ![j] = JobRow("completed", n, @.total)]
    /\ UNCHANGED lock_vars
    /\ UNCHANGED mcp
    /\ UNCHANGED db_files
    /\ UNCHANGED <<failure_count, failures_since, requests, call, last_op, uploads,
                   progress_queues, job>>

\* the exception of a database session that cannot query or commit
DbError == Raise("OperationalError", "database is locked", 0)

\* pipeline.ainvoke returned and the last two events were put, but the update
\* of the job row raises (main.py 98-105): the except Exception branch puts
\* the error event and tries to store status error; when that fails as well
\* (handler_ok = FALSE) the exception leaves the task
ExecuteFinishDbFails(j, handler_ok) ==
    /\ runner[j].pc = "running"
    /\ job[j].pc = "done"
    /\ LET n == Len(job[j].input)
           evs == <<ConversionEvent(n), CompletedEvent(n), ErrorEvent(DbError)>>
       IN  /\ stream' = PutAll(runner[j].queue, evs)
           /\ runner' = [runner EXCEPT
                   ![j].pc = "returned",
                   ![j].outcome = IF handler_ok THEN "db_error" ELSE "crashed",
                   ![j].emitted = @ \o [i \in DOMAIN evs |-> Emitted(evs[i], job[j].pc)]]
           /\ db' = IF handler_ok THEN [db EXCEPT ![j].status = "error"] ELSE db
    /\ UNCHANGED lock_vars
    /\ UNCHANGED mcp
    /\ UNCHANGED db_files
    /\ UNCHANGED <<failure_count, failures_since, requests, call, last_op, uploads,
                   progress_queues, job>>

\* the except asyncio.TimeoutError branch: the event, and nothing else
OnTimeout(j, outcome, exc) ==
    /\ stream' = PutAll(runner[j].queue, <<TimeoutEvent>>)
    /\ runner' = [runner EXCEPT
            ![j].pc = "returned",
            ![j].outcome = outcome,
            ![j].exc = exc,
            ![j].emitted = Append(@, Emitted(TimeoutEvent, job[j].pc))]
    /\ UNCHANGED db

\* the except Exception branch: the event, and status error in the job row
OnException(j, exc) ==
    /\ stream' = PutAll(runner[j].queue, <<ErrorEvent(exc)>>)
    /\ runner' = [runner EXCEPT
            ![j].pc = "returned",
            ![j].outcome = "error",
            ![j].exc = exc,
            ![j].emitted = Append(@, Emitted(ErrorEvent(exc), job[j].pc))]
    /\ db' = [db EXCEPT ![j].status = "error"]

\* wait_for cancels the pipeline after pipeline_timeout seconds
ExecuteTimeout(j) ==
    /\ runner[j].pc = "running"
    /\ job[j].pc \in SuspendedNodes
    /\ job' = [job EXCEPT ![j].pc = "cancelled"]
    /\ OnTimeout(j, "timeout", NoOutcome)
    /\ UNCHANGED lock_vars
    /\ UNCHANGED mcp
    /\ UNCHANGED db_files
    /\ UNCHANGED <<failure_count, failures_since, requests, call, last_op, uploads,
                   progress_queues>>

\* a node raises exc; the exception leaves pipeline.ainvoke
StageRaises(j, exc) ==
    /\ runner[j].pc = "running"
    /\ job[j].pc \in RaisingNodes
    /\ job' = [job EXCEPT ![j].pc = "raised"]
    /\ IF exc.type = "TimeoutError"
       THEN OnTimeout(j, "raised", exc)
       ELSE OnException(j, exc)
    /\ UNCHANGED lock_vars
    /\ UNCHANGED mcp
    /\ UNCHANGED db_files
    /\ UNCHANGED <<failure_count, failures_since, requests, call, last_op, uploads,
                   progress_queues>>

\* GET /progress/{job_id}: event_generator creates its queue and registers it
Subscribe(s, j) ==
    /\ stream[s].pc = "idle"
    /\ stream' = [stream EXCEPT ![s] = [pc |-> "open", job |-> j, queue |-> <<>>, got |-> <<>>]]
    /\ progress_queues' = [progress_queues EXCEPT ![j] = s]
    /\ UNCHANGED lock_vars
    /\ UNCHANGED mcp
    /\ UNCHANGED db_files
    /\ UNCHANGED <<failure_count, failures_since, requests, call, last_op, uploads,
                   job, runner, db>>

\* event_generator takes an event from its queue and yields it; after a
\* terminal event it ends and deletes the job's entry of progress_queues
Receive(s) ==
    /\ stream[s].pc = "open"
    /\ stream[s].queue # <<>>
    /\ LET ev == Head(stream[s].queue)
           terminal == ev.status \in {"completed", "error"}
       IN  /\ stream' = [stream EXCEPT
                   ![s].queue = Tail(@),
                   ![s].got = Append(@, ev.status),
                   ![s].pc = IF terminal THEN "closed" ELSE @]
           /\ progress_queues' = IF terminal
                                 THEN [progress_queues EXCEPT ![stream[s].job] = "None"]
                                 ELSE progress_queues
    /\ UNCHANGED lock_vars
    /\ UNCHANGED mcp
    /\ UNCHANGED db_files
    /\ UNCHANGED <<failure_count, failures_since, requests, call, last_op, uploads,
                   job, runner, db>>

(***************************************************************************)
(* The MCP tool get_exchange_rate (src/exchange_rate_mcp/tools.py).  It is *)
(* a synchronous function: a call runs from its start to its end.          *)
(*   cache      the entries [key, result] of the JSON file at CACHE_PATH   *)
(*   requests   the requests sent to the rate service                      *)
(*   calls      the calls made                                             *)
(*   last       the last call: the format of its date, its key, what it    *)
(*              returned or raised, and whether the cache file could be    *)
(*              read and was written                                       *)
(*   returned   history: the [key, result] of every call that returned     *)
(***************************************************************************)
McpKey(date, from_currency, to_currency) ==
    [date |-> date, from |-> Upper(from_currency), to |-> Upper(to_currency)]

NoKey == McpKey(NoDate, "None", "None")

\* asdict(ExchangeRate(**data))
ExchangeRate(key, rate) == [amount |-> 1, base |-> key.from, date |-> key.date,
                            to |-> key.to, rate |-> rate]

NoResult == ExchangeRate(NoKey, NoneNum)

McpOutcome(type, msg, result) == [type |-> type, msg |-> msg, result |-> result]

McpLast(fmt, key, out, load_ok, saved) ==
    [fmt |-> fmt, key |-> key, out |-> out, load_ok |-> load_ok, saved |-> saved]

NoMcp ==
    [cache |-> {}, requests |-> 0, calls |-> 0,
     last |-> McpLast("none", NoKey, McpOutcome("none", "", NoResult), FALSE, FALSE),
     returned |-> {}]

\* what requests.get delivers: an exception, a status that is not 200, or
\* the JSON object with the rate
McpResponses ==
    {[kind |-> k, rate |-> NoneNum] : k \in {"timeout", "status"}}
    \cup {[kind |-> "object", rate |-> r] : r \in {Dec(33064, 4), Dec(34, 1)}}

\* _load_cache: the entries of the file, or {} when it cannot be read
_load_cache(cache, load_ok) == IF load_ok THEN cache ELSE {}

\* _save_cache: the file holds the dict, or is left as it was when the write
\* fails (the IOError is ignored)
_save_cache(old, cache, save_ok) == IF save_ok THEN cache ELSE old

\* the call ends: what it returned or raised is recorded
McpEnd(fmt, key, out, load_ok, saved, sent, cache) ==
    mcp' = [cache |-> cache,
            requests |-> mcp.requests + (IF sent THEN 1 ELSE 0),
            calls |-> mcp.calls + 1,
            last |-> McpLast(fmt, key, out, load_ok, saved),
            returned |-> IF out.type = "ok"
                         THEN mcp.returned \cup {[key |-> key, result |-> out.result]}
                         ELSE mcp.returned]

\* a cache keyed by the date alone
get_exchange_rate_date_key(date, from_currency, to_currency, resp, load_ok, save_ok) ==
    /\ mcp.calls < MaxRequests
    /\ LET norm == _normalize_date(date)
           key == McpKey(norm.date, from_currency, to_currency)
           cache == _load_cache(mcp.cache, load_ok)
           hits == {e \in cache : e.key.date = key.date}
       IN  IF ~norm.ok
           THEN McpEnd(date.fmt, NoKey, McpOutcome("ValueError", "Invalid date format", NoResult),
                       FALSE, FALSE, FALSE, mcp.cache)
           ELSE IF hits # {}
           THEN McpEnd(date.fmt, key, McpOutcome("ok", "", (CHOOSE e \in hits : TRUE).result),
                       load_ok, FALSE, FALSE, mcp.cache)
           ELSE IF resp.kind = "object"
           THEN LET result == ExchangeRate(key, resp.rate)
                    entry == [key |-> key, result |-> result]
                IN  McpEnd(date.fmt, key, McpOutcome("ok", "", result), load_ok, save_ok, TRUE,
                           _save_cache(mcp.cache, cache \cup {entry}, save_ok))
           ELSE McpEnd(date.fmt, key, McpOutcome("Exception", resp.kind, NoResult),
                       load_ok, FALSE, TRUE, mcp.cache)
    /\ UNCHANGED <<failure_count, failures_since, requests, call, job, uploads, last_op>>
    /\ UNCHANGED app_vars
    /\ UNCHANGED lock_vars

\* get_exchange_rate(date, from_currency, to_currency); resp is the response
\* to its request, load_ok and save_ok tell whether the cache file can be
\* read and written
get_exchange_rate(date, from_currency, to_currency, resp, load_ok, save_ok) ==
    /\ mcp.calls < MaxRequests
    /\ LET norm == _normalize_date(date)
           key == McpKey(norm.date, from_currency, to_currency)
           cache == _load_cache(mcp.cache, load_ok)
           hits == {e \in cache : e.key = key}
       IN  IF ~norm.ok
           THEN McpEnd(date.fmt, NoKey, McpOutcome("ValueError", "Invalid date format", NoResult),
                       FALSE, FALSE, FALSE, mcp.cache)
           ELSE IF hits # {}
           THEN McpEnd(date.fmt, key, McpOutcome("ok", "", (CHOOSE e \in hits : TRUE).result),
                       load_ok, FALSE, FALSE, mcp.cache)
           ELSE IF resp.kind = "object"
           THEN LET result == ExchangeRate(key, resp.rate)
                    entry == [key |-> key, result |-> result]
                IN  McpEnd(date.fmt, key, McpOutcome("ok", "", result), load_ok, save_ok, TRUE,
                           _save_cache(mcp.cache, cache \cup {entry}, save_ok))
           ELSE McpEnd(date.fmt, key, McpOutcome("Exception", resp.kind, NoResult),
                       load_ok, FALSE, TRUE, mcp.cache)
    /\ UNCHANGED <<failure_count, failures_since, requests, call, job, uploads, last_op>>
    /\ UNCHANGED app_vars
    /\ UNCHANGED lock_vars

\* the application before any request
NoApp ==
    /\ progress_queues = [j \in JobIds |-> "None"]
    /\ stream = [s \in Streams |-> NoStream]
    /\ runner = [j \in JobIds |-> NoRunner]
    /\ db = [j \in JobIds |-> NoRow]
    /\ db_files = [j \in JobIds |-> <<>>]
    /\ lock = "None"
    /\ task = [t \in Tasks |-> NoTask]
    /\ mcp = NoMcp

(***************************************************************************)
(* Specifications                                                          *)
(***************************************************************************)
MaxFiles == 2       \* the largest batch

NoJobs == [j \in JobIds |-> NoJob]

EmptyUploads == [n \in Filenames |-> NoFile]

\* the currency module used directly: no pipeline run
Init ==
    /\ failure_count = 0
    /\ failures_since = 0
    /\ requests = 0
    /\ call = [c \in Callers |-> Idle(NoDate, NoUrl, NoResp, NoOutcome)]
    /\ job = NoJobs
    /\ uploads = EmptyUploads
    /\ last_op = "none"
    /\ NoApp

Next ==
    \/ \E c \in Callers, date \in Dates, from_ \in FromCodes, to_ \in ToCodes :
            GetRateCall(c, date, from_, to_)
    \/ \E c \in Callers, resp \in Responses : GetRateReturn(c, resp)
    \/ RecordFailure
    \/ RecordSuccess
    \/ reset_circuit_breaker

Spec == Init /\ [][Next]_vars

\* sequences over S of length 1..n
RECURSIVE SeqsUpTo(_, _)
SeqsUpTo(S, n) ==
    IF n = 0 THEN {}
    ELSE SeqsUpTo(S, n - 1) \cup [1..n -> S]

Targets == {"ils", "None"}

(***************************************************************************)
(* convert.run called on a batch, as tests/test_convert_node.py does, with *)
(* the breaker in any state earlier lookups can have left it in            *)
(***************************************************************************)
ConvertFile(date, currency, amount) ==
    [filename |-> "None",
     status |-> "ready_for_conversion",
     error |-> [text |-> "None", cause |-> NoOutcome],
     src_currency |-> currency,
     invoice_total |-> amount,
     invoice_date |-> date,
     exchange_rate |-> NoneNum,
     converted_total |-> NoneNum,
     lookup |-> NoOutcome]

ConvertInputs ==
    {ConvertFile(DateStr("ymd", 2025, 7, 10), "ILS", Dec(100, 0)),
     ConvertFile(DateStr("dmy", 10, 7, 2025), "EUR", Dec(123456, 3)),
     ConvertFile(DateStr("ymd", 2025, 7, 10), "usd", Dec(5, 3)),
     ConvertFile(DateStr("ymd", 2025, 7, 10), "ILS", Dec(0, 0)),
     ConvertFile(NoDate, "EUR", Dec(100, 0)),
     ConvertFile(DateStr("text", 0, 0, 0), "EUR", Dec(100, 0)),
     check_currency_file(Invoice(<<2025, 7, 10>>, "novalue", "None", NoneNum))}

PositionName(i) == IF i % 2 = 1 THEN "a.pdf" ELSE "b.pdf"

InitConvert ==
    /\ failure_count \in 0..max_failures
    /\ failures_since = failure_count
    /\ requests = 0
    /\ call = [c \in Callers |-> Idle(NoDate, NoUrl, NoResp, NoOutcome)]
    /\ \E batch \in SeqsUpTo(ConvertInputs, MaxFiles), t \in Targets :
        LET files == [i \in DOMAIN batch |-> [batch[i] EXCEPT !.filename = PositionName(i)]]
            invoices == [i \in DOMAIN batch |->
                            [Invoice(<<>>, "None", "None", NoneNum)
                                EXCEPT !.filename = PositionName(i)]]
        IN  job = [NoJobs EXCEPT !["j1"] = NewJob("convert", t, files, invoices)]
    /\ uploads = EmptyUploads
    /\ last_op = "none"
    /\ NoApp

NextConvert ==
    \/ \E j \in JobIds : ConvertStart(j)
    \/ \E j \in JobIds, resp \in Responses : ConvertReturn(j, resp)

SpecConvert == InitConvert /\ [][NextConvert]_vars

(***************************************************************************)
(* a run of the whole pipeline on an uploaded batch                        *)
(***************************************************************************)
InputFiles ==
    {InputFile("a.pdf", "data"), InputFile("b.pdf", "path"), InputFile("a.pdf", "bare")}

ExtractOk(invoice) == [type |-> "ok", msg |-> "", value |-> invoice]

NoInvoice == Invoice(<<>>, "None", "None", NoneNum)

ExtractOutcomes ==
    {ExtractOk(Invoice(<<2025, 7, 10>>, "value", "EUR", Dec(100, 0))),
     ExtractOk(Invoice(<<>>, "value", "ils", Dec(123456, 3))),
     ExtractOk(Invoice(<<2025, 7, 5>>, "novalue", "None", NoneNum)),
     ExtractOk(Invoice(<<2025, 7, 10>>, "value", "None", Dec(100, 0))),
     [type |-> "None", msg |-> "", value |-> NoInvoice],
     [type |-> "Exception", msg |-> "extraction service error", value |-> NoInvoice]}

InitPipe ==
    /\ failure_count = 0
    /\ failures_since = 0
    /\ requests = 0
    /\ call = [c \in Callers |-> Idle(NoDate, NoUrl, NoResp, NoOutcome)]
    /\ \E batch \in SeqsUpTo(InputFiles, MaxFiles), t \in Targets :
        job = [NoJobs EXCEPT !["j1"] = NewJob("upload", t, batch, <<>>)]
    /\ uploads = EmptyUploads
    /\ last_op = "none"
    /\ NoApp

NextPipe ==
    \/ \E j \in JobIds : Upload(j)
    \/ \E j \in JobIds : ExtractStart(j)
    \/ \E j \in JobIds, out \in ExtractOutcomes : ExtractReturn(j, out)
    \/ \E j \in JobIds : CheckCurrency(j)
    \/ \E j \in JobIds : ConvertStart(j)
    \/ \E j \in JobIds, resp \in Responses : ConvertReturn(j, resp)
    \/ \E j \in JobIds : Excel(j)

SpecPipe == InitPipe /\ [][NextPipe]_vars

(***************************************************************************)
(* an outage of the rate service: two batches converted one after the      *)
(* other, every request answered by a failure (tests/test_convert_node.py, *)
(* test_circuit_breaker_failure)                                           *)
(***************************************************************************)
FailingResponses ==
    {Resp(k, EmptyRates) : k \in {"timeout", "network_error", "status", "invalid_json", "object"}}

OutageInputs ==
    {ConvertFile(DateStr("ymd", 2025, 7, 10), "EUR", Dec(100, 0)),
     ConvertFile(DateStr("ymd", 2025, 7, 10), "ILS", Dec(100, 0)),
     ConvertFile(NoDate, "EUR", Dec(100, 0)),
     ConvertFile(DateStr("text", 0, 0, 0), "EUR", Dec(100, 0))}

OutageJob(batch) ==
    LET files == [i \in DOMAIN batch |-> [batch[i] EXCEPT !.filename = PositionName(i)]]
        invoices == [i \in DOMAIN batch |->
                        [Invoice(<<>>, "None", "None", NoneNum)
                            EXCEPT !.filename = PositionName(i)]]
    IN  NewJob("convert", "ils", files, invoices)

InitOutage ==
    /\ failure_count = 0
    /\ failures_since = 0
    /\ requests = 0
    /\ call = [c \in Callers |-> Idle(NoDate, NoUrl, NoResp, NoOutcome)]
    /\ \E b1, b2 \in SeqsUpTo(OutageInputs, MaxFiles) :
        job = [j \in JobIds |-> IF j = "j1" THEN OutageJob(b1) ELSE OutageJob(b2)]
    /\ uploads = EmptyUploads
    /\ last_op = "none"
    /\ NoApp

\* the second batch is converted when the first is through
NextOutage ==
    \/ ConvertStart("j1")
    \/ job["j1"].pc = "excel" /\ ConvertStart("j2")
    \/ \E j \in JobIds, resp \in FailingResponses : ConvertReturn(j, resp)

SpecOutage == InitOutage /\ [][NextOutage]_vars

(***************************************************************************)
(* two jobs in convert.run at the same time: each is a task of its own     *)
(* (main.py 197), suspended in its request while the other one runs        *)
(***************************************************************************)
SharedInputs ==
    {ConvertFile(DateStr("ymd", 2025, 7, 10), "EUR", Dec(100, 0)),
     ConvertFile(DateStr("ymd", 2025, 7, 10), "ILS", Dec(100, 0))}

SharedResponses ==
    {Resp("timeout", EmptyRates), Resp("status", EmptyRates),
     Resp("object", [k \in {"ILS"} |-> Dec(3333, 3)])}

InitShared ==
    /\ failure_count = 0
    /\ failures_since = 0
    /\ requests = 0
    /\ call = [c \in Callers |-> Idle(NoDate, NoUrl, NoResp, NoOutcome)]
    /\ \E b1, b2 \in SeqsUpTo(SharedInputs, MaxFiles) :
        job = [j \in JobIds |-> IF j = "j1" THEN OutageJob(b1) ELSE OutageJob(b2)]
    /\ uploads = EmptyUploads
    /\ last_op = "none"
    /\ NoApp

NextShared ==
    \/ \E j \in JobIds : ConvertStart(j)
    \/ \E j \in JobIds, resp \in SharedResponses : ConvertReturn(j, resp)

SpecShared == InitShared /\ [][NextShared]_vars

(***************************************************************************)
(* tasks calling the breaker's methods at the same time.  reset_circuit_   *)
(* breaker, which replaces the breaker and takes no lock, runs between the *)
(* methods, as it does on the event loop.                                  *)
(***************************************************************************)
InitLock ==
    /\ failure_count = 0
    /\ failures_since = 0
    /\ requests = 0
    /\ call = [c \in Callers |-> Idle(NoDate, NoUrl, NoResp, NoOutcome)]
    /\ job = NoJobs
    /\ uploads = EmptyUploads
    /\ last_op = "none"
    /\ NoApp

NextLock ==
    \/ \E t \in Tasks, op \in BreakerOps : BreakerCall(t, op)
    \/ \E t \in Tasks : Acquire(t)
    \/ \E t \in Tasks : BodyRead(t)
    \/ \E t \in Tasks : BodyWrite(t)
    \/ \E t \in Tasks : Release(t)
    \/ (\A t \in Tasks : task[t].pc = "idle") /\ reset_circuit_breaker

SpecLock == InitLock /\ [][NextLock]_vars

(***************************************************************************)
(* the application serving a job: submission, the background task, the     *)
(* pipeline and the progress streams                                       *)
(***************************************************************************)
\* the jobs submitted
Submitted == {"j1"}

\* the progress streams the client opens
Listeners == {"s1"}

\* the uploads of a request: every entry has a filename and file_data
Uploaded == {InputFile(n, "data") : n \in Filenames}

InitApp ==
    /\ failure_count = 0
    /\ failures_since = 0
    /\ requests = 0
    /\ call = [c \in Callers |-> Idle(NoDate, NoUrl, NoResp, NoOutcome)]
    /\ job = NoJobs
    /\ uploads = EmptyUploads
    /\ last_op = "none"
    /\ NoApp

NextApp ==
    \/ \E j \in Submitted, files \in SeqsUpTo(Uploaded, MaxFiles) :
            process_invoices(j, files, "ils")
    \/ \E j \in JobIds : ExecuteStart(j)
    \/ \E j \in JobIds : Upload(j)
    \/ \E j \in JobIds : ExtractStart(j)
    \/ \E j \in JobIds, out \in ExtractOutcomes : ExtractReturn(j, out)
    \/ \E j \in JobIds : CheckCurrency(j)
    \/ \E j \in JobIds : ConvertStart(j)
    \/ \E j \in JobIds, resp \in Responses : ConvertReturn(j, resp)
    \/ \E j \in JobIds : Excel(j)
    \/ \E j \in JobIds : ExecuteFinish(j)
    \/ \E j \in JobIds : ExecuteTimeout(j)
    \/ \E j \in JobIds, exc \in StageExceptions : StageRaises(j, exc)
    \/ \E s \in Listeners, j \in Submitted : Subscribe(s, j)
    \/ \E s \in Listeners : Receive(s)

SpecApp == InitApp /\ [][NextApp]_vars

(***************************************************************************)
(* two jobs submitted one after the other and run at the same time, up to  *)
(* the end of their extraction; the same filenames may occur in both       *)
(***************************************************************************)
TwoJobsOutcomes ==
    {ExtractOk(Invoice(<<2025, 7, 10>>, "value", "EUR", Dec(100, 0))),
     [type |-> "None", msg |-> "", value |-> NoInvoice]}

InitTwoJobs ==
    /\ failure_count = 0
    /\ failures_since = 0
    /\ requests = 0
    /\ call = [c \in Callers |-> Idle(NoDate, NoUrl, NoResp, NoOutcome)]
    /\ \E b1, b2 \in SeqsUpTo(Uploaded, MaxFiles) :
        job = [j \in JobIds |-> NewJob("upload", "ils", IF j = "j1" THEN b1 ELSE b2, <<>>)]
    /\ uploads = EmptyUploads
    /\ last_op = "none"
    /\ NoApp

NextTwoJobs ==
    \/ \E j \in JobIds : Upload(j)
    \/ \E j \in JobIds : ExtractStart(j)
    \/ \E j \in JobIds, out \in TwoJobsOutcomes : ExtractReturn(j, out)
    \/ \E j \in JobIds : CheckCurrency(j)

SpecTwoJobs == InitTwoJobs /\ [][NextTwoJobs]_vars

(***************************************************************************)
(* calls of the MCP tool, one after the other, with dates in several       *)
(* formats and currency codes in both cases (tests/test_get_exchange_rate) *)
(***************************************************************************)
McpDates ==
    {DateStr("ymd", 2025, 7, 10), DateStr("dmy", 7, 10, 2025), DateStr("dmy", 10, 7, 2025),
     DateStr("text", 0, 0, 0)}

McpFromCodes == {"USD", "usd"}

McpToCodes == {"ils", "EUR"}

InitMcp ==
    /\ failure_count = 0
    /\ failures_since = 0
    /\ requests = 0
    /\ call = [c \in Callers |-> Idle(NoDate, NoUrl, NoResp, NoOutcome)]
    /\ job = NoJobs
    /\ uploads = EmptyUploads
    /\ last_op = "none"
    /\ NoApp

NextMcp ==
    \E date \in McpDates, from_currency \in McpFromCodes, to_currency \in McpToCodes,
       resp \in McpResponses, load_ok \in BOOLEAN, save_ok \in BOOLEAN :
        get_exchange_rate(date, from_currency, to_currency, resp, load_ok, save_ok)

SpecMcp == InitMcp /\ [][NextMcp]_vars

(***************************************************************************)
(* the application when the database can fail: the update of the job row   *)
(* at the end of a run may raise                                           *)
(***************************************************************************)
NextAppDb ==
    \/ NextApp
    \/ \E j \in JobIds, handler_ok \in BOOLEAN : ExecuteFinishDbFails(j, handler_ok)

SpecAppDb == InitApp /\ [][NextAppDb]_vars

(***************************************************************************)
(* the application with two progress streams opened for the job            *)
(***************************************************************************)
NextStreams ==
    \/ \E j \in Submitted, files \in SeqsUpTo(Uploaded, MaxFiles) :
            process_invoices(j, files, "ils")
    \/ \E j \in JobIds : ExecuteStart(j)
    \/ \E j \in JobIds : Upload(j)
    \/ \E j \in JobIds : ExtractStart(j)
    \/ \E j \in JobIds, out \in TwoJobsOutcomes : ExtractReturn(j, out)
    \/ \E j \in JobIds : CheckCurrency(j)
    \/ \E j \in JobIds : ConvertStart(j)
    \/ \E j \in JobIds, resp \in SharedResponses : ConvertReturn(j, resp)
    \/ \E j \in JobIds : Excel(j)
    \/ \E j \in JobIds : ExecuteFinish(j)
    \/ \E j \in JobIds : ExecuteTimeout(j)
    \/ \E s \in Streams, j \in Submitted : Subscribe(s, j)
    \/ \E s \in Streams : Receive(s)

SpecStreams == InitApp /\ [][NextStreams]_vars

(***************************************************************************)
(* Properties of the rate lookup and its circuit breaker                   *)
(***************************************************************************)
\* a step in which caller c calls get_rate
CallStep(c) == call[c].pc = "idle" /\ call'[c] # call[c]

\* a step in which the get_rate call of caller c gets its response and ends
ReturnStep(c) == call[c].pc = "waiting" /\ call'[c].pc = "idle"

\* C1: a get_rate call made while failure_count >= 2 raises FrankfurterDown,
\* sends no request and leaves failure_count as it is.
C1_OpenBreakerRejects ==
    [][\A c \in Callers :
        (CallStep(c) /\ failure_count >= 2) =>
            /\ call'[c].pc = "idle"
            /\ call'[c].ret.type = "FrankfurterDown"
            /\ requests' = requests
            /\ failure_count' = failure_count]_vars

\* two failed lookups, then a third call that is rejected: two requests were
\* sent and the count is still 2
C1_Witness ==
    /\ \E c \in Callers : call[c].ret.type = "FrankfurterDown"
    /\ last_op = "rejected"
    /\ requests = 2
    /\ failure_count = 2
    /\ failures_since = 2

\* C4: a successful lookup leaves failure_count at 0 whatever it was, so an
\* open breaker always has at least 2 failures behind it since the last
\* success or reset.
C4_SuccessResets ==
    /\ last_op = "record_success" => failure_count = 0
    /\ failure_count >= 2 => failures_since >= 2

\* a lookup succeeded and a later one failed: one failure is counted and the
\* breaker is closed
C4_Witness ==
    /\ \E c, d \in Callers :
        /\ call[c].ret.type = "ok"
        /\ call[d].pc = "idle" /\ call[d].ret.type = "Exception"
    /\ requests = 3
    /\ last_op = "record_failure"
    /\ failures_since = 1
    /\ failure_count = 1

\* C5: is_open() answers true exactly when failure_count >= 2: a get_rate
\* call is rejected by the breaker if and only if the count is 2 or more.
C5_IsOpenIffThreshold ==
    [][\A c \in Callers :
        CallStep(c) => ((call'[c].ret.type = "FrankfurterDown") <=> (failure_count >= 2))]_vars

\* one caller was rejected, and after a reset and one failure the other
\* caller's request is let through
C5_Witness ==
    \E c, d \in Callers :
        /\ call[c].ret.type = "FrankfurterDown"
        /\ call[d].pc = "waiting"
        /\ failure_count = 1
        /\ last_op = "request"

\* the response is one of the failures of the network attempt
FailedAttempt(resp, to_) ==
    \/ resp.kind \in {"timeout", "network_error", "status", "invalid_json"}
    \/ resp.kind = "object" /\ to_ \notin DOMAIN resp.rates

UpstreamMessages ==
    {"Request timeout", "Network error", "Failed to fetch exchange rate",
     "Invalid JSON response", "Currency not found in response"}

UnparsableDates == {DateStr("dmy", 32, 13, 2025), DateStr("text", 0, 0, 0)}

\* C7: a get_rate call with an unparsable date, made while the breaker is
\* closed, raises ValueError "Invalid date format", sends no request and
\* leaves failure_count as it is.
C7_InvalidDateLeavesBreaker ==
    [][\A c \in Callers :
        (CallStep(c) /\ failure_count < 2 /\ call'[c].date \in UnparsableDates) =>
            /\ call'[c].pc = "idle"
            /\ call'[c].ret.type = "ValueError"
            /\ call'[c].ret.msg = "Invalid date format"
            /\ requests' = requests
            /\ failure_count' = failure_count]_vars

\* the call with "32-13-2025" was refused after one failure had been counted
C7_Witness ==
    \E c \in Callers :
        /\ call[c].date = DateStr("dmy", 32, 13, 2025)
        /\ call[c].ret.type = "ValueError"
        /\ last_op = "invalid"
        /\ failure_count = 1

\* C8: there is no half-open state: from an open breaker no step sends a
\* request, and the breaker is closed again only by record_success or reset.
C8_NoHalfOpen ==
    [][failure_count >= 2 =>
        /\ last_op' # "request"
        /\ failure_count' >= 2 \/ last_op' \in {"record_success", "reset"}]_vars

\* a call was rejected by the open breaker and a later success closed it
C8_Witness ==
    /\ \E c \in Callers : call[c].ret.type = "FrankfurterDown"
    /\ last_op = "record_success"
    /\ failure_count = 0

\* v is raw rounded to 2 decimal places, a tie going away from zero
IsHalfUpOf(v, raw) ==
    LET D == IF raw.d > 2 THEN raw.d ELSE 2
        R == Abs(raw.c) * Pow10(D - raw.d)
        V == Abs(v.c) * Pow10(D - 2)
        H == Pow10(D - 2)
    IN  /\ v.d = 2
        /\ 2 * (V - R) <= H
        /\ 2 * (R - V) < H
        /\ (v.c < 0) => (raw.c < 0)

C10_TieWitness ==
    \E c \in Callers :
        /\ call[c].ret = Return(Dec(101, 2))
        /\ call[c].resp.rates[call[c].url.to] = Dec(1005, 3)

(***************************************************************************)
(* Properties of the conversion stage                                      *)
(***************************************************************************)
\* the item has been dealt with: it is marked failed or carries its result
Processed(f) ==
    \/ f.status = "failed"
    \/ f.exchange_rate # NoneNum /\ f.converted_total # NoneNum

\* C2: an exception of get_rate for one item marks that item, and only that
\* item, failed with a message that holds the cause; the stage goes on to
\* every later item and ends normally; an item whose lookup succeeded carries
\* exchange_rate and converted_total.
C2_LookupFailureIsolated ==
    \A j \in JobIds :
        job[j].pc \in {"converting", "excel"} =>
            /\ Len(job[j].files) = Len(job[j].input)
            /\ \A i \in DOMAIN job[j].files :
                LET f == job[j].files[i]
                    before == job[j].input[i]
                IN  /\ f.lookup.type \notin {"none", "ok"} =>
                            /\ f.status = "failed"
                            /\ f.error.text = "Currency conversion failed"
                            /\ f.error.cause = f.lookup
                    /\ f.lookup.type = "ok" =>
                            /\ f.status = before.status
                            /\ f.exchange_rate # NoneNum
                            /\ f.converted_total # NoneNum
                    /\ (f.status = "failed" /\ f.lookup.type \in {"none", "ok"}) =>
                            before.status = "failed" \/ MissingFields(before)
                    /\ job[j].pc = "excel" => Processed(f)
                    /\ (job[j].pc = "converting" /\ i < job[j].idx) => Processed(f)

\* the first item's lookup got a non-200 response and the item is failed,
\* the second item's lookup succeeded and the stage has ended
C2_Witness ==
    \E j \in JobIds :
        /\ job[j].pc = "excel"
        /\ Len(job[j].files) = 2
        /\ job[j].files[1].lookup.msg = "Failed to fetch exchange rate"
        /\ job[j].files[1].status = "failed"
        /\ job[j].files[2].lookup.type = "ok"
        /\ job[j].files[2].exchange_rate = Dec(333, 2)

\* a lookup with an unparsable date and a lookup rejected by the open breaker
\* were each followed by a further item
C2_WitnessRejected ==
    \E j \in JobIds :
        /\ job[j].pc = "excel"
        /\ Len(job[j].files) = 2
        /\ job[j].files[1].lookup.type = "ValueError"
        /\ job[j].files[2].lookup.type = "FrankfurterDown"

\* the item carries a date, a currency code and an amount
HasAllFields(f) ==
    /\ f.invoice_date.fmt # "none"
    /\ f.src_currency \notin {"None", ""}
    /\ f.invoice_total # NoneNum

\* C9: an item whose source currency equals the target currency, ignoring
\* letter case, gets exchange_rate 1.0 and its own amount as converted_total,
\* and no request is sent for it.
C9_SameCurrencyShortCircuit ==
    \A j \in JobIds :
        job[j].pc = "excel" =>
            \A i \in DOMAIN job[j].files :
                LET f == job[j].files[i]
                    before == job[j].input[i]
                IN  (HasAllFields(before)
                     /\ Upper(before.src_currency) = Upper(ResolveTarget(job[j].target))) =>
                        /\ f.exchange_rate = Dec(1, 0)
                        /\ f.converted_total = Float(before.invoice_total)
                        /\ f.lookup = NoOutcome
                        /\ f.status # "failed"

\* what the code does keep of C9: such an item with an amount other than 0
C9_SameCurrencyNonZero ==
    \A j \in JobIds :
        job[j].pc = "excel" =>
            \A i \in DOMAIN job[j].files :
                LET f == job[j].files[i]
                    before == job[j].input[i]
                IN  (HasAllFields(before) /\ before.invoice_total.c # 0
                     /\ Upper(before.src_currency) = Upper(ResolveTarget(job[j].target))) =>
                        /\ f.exchange_rate = Dec(1, 0)
                        /\ f.converted_total = Float(before.invoice_total)
                        /\ f.lookup = NoOutcome
                        /\ f.status # "failed"

(***************************************************************************)
(* Properties of the pipeline                                              *)
(***************************************************************************)
\* the batch holds one entry per uploaded file, in upload order
SameBatch(files, input) ==
    /\ Len(files) = Len(input)
    /\ \A i \in DOMAIN input : files[i].filename = input[i].filename

\* C3: at every stage boundary (after upload, extract, validate, convert) of
\* a run on uploaded files the batch holds exactly one entry per uploaded
\* file, in upload order; a file whose extraction failed is still there.
C3_BatchKeepsEveryFile ==
    \A j \in JobIds :
        (/\ job[j].pc \in {"extract", "check_currency", "convert", "excel"}
         /\ \A i \in DOMAIN job[j].input : job[j].input[i].has_data)
            => SameBatch(job[j].files, job[j].input)


(***************************************************************************)
(* Properties of the conversion arithmetic                                 *)
(***************************************************************************)
\* a float with at most 2 decimal places written with exactly 2
Cents(v) == Dec(v.c * Pow10(2 - v.d), 2)

\* the exact product of two decimals, by its coefficient and scale
ExactProduct(x, y) == Dec(x.c * y.c, x.d + y.d)

\* C11: for every converted item, converted_total is the source amount times
\* the rate the lookup returned, rounded half up to 2 decimal places (a tie
\* goes up); the item is not marked failed.
C11_ConvertedTotalHalfUp ==
    \A j \in JobIds : \A i \in DOMAIN job[j].files :
        LET f == job[j].files[i]
        IN  f.lookup.type = "ok" =>
                /\ f.converted_total.d <= 2
                /\ IsHalfUpOf(Cents(f.converted_total),
                              ExactProduct(f.invoice_total, f.lookup.value))
                /\ f.exchange_rate = Float(f.lookup.value)
                /\ f.status # "failed"

\* 0.005 at the rate 1.00 was converted to 0.01
C11_Witness ==
    \E j \in JobIds : \E i \in DOMAIN job[j].files :
        LET f == job[j].files[i]
        IN  /\ f.invoice_total = Dec(5, 3)
            /\ f.lookup = Return(Dec(100, 2))
            /\ f.converted_total = Dec(1, 2)

\* a step in which the lookup of job j for its item at idx gets the response resp
LookupAnswered(j, resp) ==
    /\ job[j].pc = "converting"
    /\ job'[j].pc # "converting" \/ job'[j].idx > job[j].idx
    /\ job'[j].files[job[j].idx].lookup = GetRateFinish(failure_count, job[j].url, resp).out

\* C12: the amount 123.456 looked up at the upstream rate 3.333 is stored
\* with exchange_rate 3.333 and converted_total 411.48.
C12_StoresUpstreamRate ==
    [][\A j \in JobIds, resp \in Responses :
        LET i == job[j].idx
        IN  (/\ LookupAnswered(j, resp)
             /\ job[j].files[i].invoice_total = Dec(123456, 3)
             /\ resp.kind = "object"
             /\ job[j].url.to \in DOMAIN resp.rates
             /\ resp.rates[job[j].url.to] = Dec(3333, 3))
            => /\ job'[j].files[i].exchange_rate = Dec(3333, 3)
               /\ job'[j].files[i].converted_total = Dec(41148, 2)]_vars

\* what is stored instead: the rate rounded to 3.33 and 123.456 x 3.33 =
\* 411.10848 rounded to 411.11
C12_StoresRoundedRate ==
    [][\A j \in JobIds, resp \in Responses :
        LET i == job[j].idx
        IN  (/\ LookupAnswered(j, resp)
             /\ job[j].files[i].invoice_total = Dec(123456, 3)
             /\ resp.kind = "object"
             /\ job[j].url.to \in DOMAIN resp.rates
             /\ resp.rates[job[j].url.to] = Dec(3333, 3))
            => /\ job'[j].files[i].exchange_rate = Dec(333, 2)
               /\ job'[j].files[i].converted_total = Dec(41111, 2)]_vars

\* the item lacks its date, its currency code or its amount
ItemMissing(f) ==
    \/ f.invoice_date.fmt = "none"
    \/ f.src_currency \in {"None", ""}
    \/ f.invoice_total = NoneNum

\* the items of job j the stage has dealt with
Handled(j) ==
    {i \in DOMAIN job[j].files :
        job[j].pc = "excel" \/ (job[j].pc = "converting" /\ i < job[j].idx)}

\* the items of job j for which a request was sent and answered
Answered(j) ==
    {i \in DOMAIN job[j].files :
        job[j].files[i].lookup.type \notin {"none", "FrankfurterDown", "ValueError"}}

MissingMessage == "Missing required fields: invoice_date, src_currency, or invoice_total"

\* the batch of job j after the stage, item by item
MissingItemIsolated(j) ==
    /\ Len(job[j].files) = Len(job[j].input)
    /\ requests = Cardinality(Answered(j)) + (IF job[j].pc = "converting" THEN 1 ELSE 0)
    /\ \A i \in DOMAIN job[j].files :
        LET f == job[j].files[i]
            before == job[j].input[i]
        IN  /\ f.filename = before.filename
            /\ (i \in Handled(j) /\ ItemMissing(before)) =>
                    /\ f.status = "failed"
                    /\ f.error.text = MissingMessage
                    /\ f.lookup = NoOutcome
                    /\ f.exchange_rate = NoneNum
                    /\ f.converted_total = NoneNum
            /\ (i \in Handled(j) /\ ~ItemMissing(before) /\ before.invoice_total.c # 0) =>
                    IF Upper(before.src_currency) = Upper(ResolveTarget(job[j].target))
                    THEN f.exchange_rate = Dec(1, 0) /\ f.status = before.status
                    ELSE /\ f.lookup # NoOutcome
                         /\ f.lookup.type = "ok" =>
                                /\ f.status = before.status
                                /\ f.exchange_rate = Float(f.lookup.value)
                         /\ f.lookup.type # "ok" => f.error.cause = f.lookup

NeedsLookup(j, i) ==
    LET f == job[j].input[i]
    IN  /\ ~MissingFields(f)
        /\ Upper(f.src_currency) # Upper(ResolveTarget(job[j].target))
        /\ _normalize_date(f.invoice_date).ok

\* the items that need a lookup and come before item i of job j
LookupsBefore(j, i) ==
    {<<k, n>> \in JobIds \X (1..(MaxFiles + 1)) :
        /\ n \in DOMAIN job[k].input
        /\ NeedsLookup(k, n)
        /\ (k = "j1" /\ j = "j2") \/ (k = j /\ n < i)}

\* the items that need a lookup and have been reached
LookupsStarted ==
    {<<k, n>> \in JobIds \X (1..(MaxFiles + 1)) :
        /\ n \in DOMAIN job[k].input
        /\ NeedsLookup(k, n)
        /\ n \in Handled(k) \/ (job[k].pc = "converting" /\ n = job[k].idx)}

\* C14: while the rate service keeps failing, the items that need a lookup
\* cause 2 requests in all (one each for the first two); every later one is
\* marked failed with the 'Frankfurter API is down' error and no request is
\* sent for it.
C14_OutageTwoRequests ==
    /\ requests = (IF Cardinality(LookupsStarted) < 2 THEN Cardinality(LookupsStarted) ELSE 2)
    /\ \A j \in JobIds : \A i \in Handled(j) :
        LET f == job[j].files[i]
        IN  NeedsLookup(j, i) =>
                /\ f.status = "failed"
                /\ f.error.text = "Currency conversion failed"
                /\ f.error.cause = f.lookup
                /\ IF Cardinality(LookupsBefore(j, i)) < 2
                   THEN f.lookup.type = "Exception"
                   ELSE /\ f.lookup.type = "FrankfurterDown"
                        /\ f.lookup.msg = "Frankfurter API is down"

\* the two lookups of the first batch failed; the lookups of the second
\* batch were rejected without a request
C14_Witness ==
    /\ job["j1"].pc = "excel" /\ job["j2"].pc = "excel"
    /\ Len(job["j1"].files) = 2 /\ Len(job["j2"].files) = 2
    /\ job["j1"].files[1].lookup.type = "Exception"
    /\ job["j1"].files[2].lookup.type = "Exception"
    /\ job["j2"].files[1].lookup.type = "FrankfurterDown"
    /\ job["j2"].files[2].lookup.type = "FrankfurterDown"
    /\ requests = 2

\* one failed lookup in the first batch, the second failure and a rejection
\* in the second batch
C14_WitnessAcrossBatches ==
    /\ job["j1"].pc = "excel" /\ job["j2"].pc = "excel"
    /\ Len(job["j1"].files) = 1 /\ Len(job["j2"].files) = 2
    /\ job["j1"].files[1].lookup.type = "Exception"
    /\ job["j2"].files[1].lookup.type = "Exception"
    /\ job["j2"].files[2].lookup.type = "FrankfurterDown"
    /\ requests = 2

(***************************************************************************)
(* Properties of the items' status                                         *)
(***************************************************************************)
\* C15: once an item is failed, no later step of the run gives it another
\* status, and it keeps the error message it got when it failed.
C15_FailedKeepsMessage ==
    [][\A j \in JobIds :
        job[j].pc \in {"convert", "converting", "excel"} =>
            \A i \in DOMAIN job[j].files :
                job[j].files[i].status = "failed" =>
                    /\ i \in DOMAIN job'[j].files
                    /\ job'[j].files[i].status = "failed"
                    /\ job'[j].files[i].error.text = job[j].files[i].error.text]_vars

\* the part that holds: a failed item stays failed through the conversion
C15_FailedStaysFailed ==
    [][\A j \in JobIds :
        job[j].pc \in {"convert", "converting", "excel"} =>
            \A i \in DOMAIN job[j].files :
                job[j].files[i].status = "failed" =>
                    /\ i \in DOMAIN job'[j].files
                    /\ job'[j].files[i].status = "failed"]_vars

(***************************************************************************)
(* Properties of the runner (execute_pipeline)                             *)
(***************************************************************************)
\* the last event the task of job j emitted
LastEmitted(j) == runner[j].emitted[Len(runner[j].emitted)].event

\* a node of job j raised an exception
NodeRaised(j) == runner[j].exc # NoOutcome

\* C16: the job row gets status completed only when the excel node has
\* returned, a run whose pipeline returned ends with status completed
\* whatever its items' statuses are, and status error is set only when a node
\* raised.
C16_CompletedAfterRender ==
    \A j \in JobIds :
        /\ db[j].status = "completed" =>
                /\ job[j].pc = "done"
                /\ job[j].row_count >= 1
                /\ runner[j].outcome = "completed"
        /\ db[j].status = "error" => NodeRaised(j)
        /\ (runner[j].pc = "returned" /\ job[j].pc = "done") => db[j].status = "completed"

\* a job of two items, both failed in the conversion, is completed
C16_Witness ==
    \E j \in JobIds :
        /\ db[j].status = "completed"
        /\ Len(job[j].files) = 2
        /\ \A i \in DOMAIN job[j].files :
                /\ job[j].files[i].status = "failed"
                /\ job[j].files[i].error.text = "Currency conversion failed"

\* C17: when a node raised, the task has emitted a last event with status
\* error that holds the exception's message, and the job row has status
\* error.
C17_RaiseSetsError ==
    \A j \in JobIds :
        NodeRaised(j) =>
            /\ LastEmitted(j).status = "error"
            /\ LastEmitted(j).message.cause = runner[j].exc.msg
            /\ db[j].status = "error"

\* the same for the exceptions that are no TimeoutError
C17_OtherRaiseSetsError ==
    \A j \in JobIds :
        (NodeRaised(j) /\ runner[j].exc.type # "TimeoutError") =>
            /\ LastEmitted(j).status = "error"
            /\ LastEmitted(j).message.cause = runner[j].exc.msg
            /\ db[j].status = "error"

\* C18: when the run was cancelled by the timeout, the task has emitted a
\* last event with status error that says so, and the job row has status
\* error.
C18_TimeoutSetsError ==
    \A j \in JobIds :
        runner[j].outcome = "timeout" =>
            /\ LastEmitted(j).status = "error"
            /\ LastEmitted(j).message.text = "Pipeline execution timed out"
            /\ db[j].status = "error"

\* C19: when the task of a submitted job has ended, it has emitted a
\* terminal event and the job row is no longer processing (nothing else
\* emits events for the job or writes its row).
C19_RunEndsTerminal ==
    \A j \in JobIds :
        runner[j].pc = "returned" =>
            /\ runner[j].emitted # <<>>
            /\ LastEmitted(j).status \in {"completed", "error"}
            /\ db[j].status # "processing"

\* the pipeline of the job is between the end of extract and the end of convert
AfterExtract == {"check_currency", "convert", "converting"}

\* the pipeline of the job is past convert
AfterConvert == {"excel", "done"}

\* C20: a completed run has emitted four events: at its start, between the
\* end of the extract node and the end of the convert node, after the
\* convert node, and at completion.
C20_EventsAtStageBoundaries ==
    \A j \in JobIds :
        runner[j].outcome = "completed" =>
            LET e == runner[j].emitted
            IN  /\ Len(e) = 4
                /\ e[1].at = "submitted"
                /\ e[2].at \in AfterExtract
                /\ e[3].at \in AfterConvert
                /\ e[4].at = "done" /\ e[4].event.status = "completed"

\* where the four events are emitted: two before the pipeline starts, two
\* after it has returned
C20_EventsAroundPipeline ==
    \A j \in JobIds :
        runner[j].outcome = "completed" =>
            LET e == runner[j].emitted
            IN  /\ Len(e) = 4
                /\ e[1].at = "submitted" /\ e[2].at = "submitted"
                /\ e[3].at = "done" /\ e[4].at = "done"

(***************************************************************************)
(* Properties of the order of the stages                                   *)
(***************************************************************************)
\* the position of a node in the graph of create_pipeline
StageRank(pc) ==
    CASE pc \in {"absent", "submitted"} -> 0
      [] pc = "upload" -> 1
      [] pc \in {"extract", "extracting"} -> 2
      [] pc = "check_currency" -> 3
      [] pc \in {"convert", "converting"} -> 4
      [] pc = "excel" -> 5
      [] OTHER -> 6

\* every file a stage has to handle has been handled when the stage is left
StageFinished(pc, j) ==
    CASE pc = "upload" -> \A i \in DOMAIN job'[j].files : ~job'[j].files[i].has_data
      [] pc \in {"extract", "extracting"} ->
            \A i \in DOMAIN job'[j].files :
                job'[j].files[i].file_path # "None"
                    => job'[j].files[i].status \in {"extracted", "failed"}
      [] pc = "check_currency" -> Len(job'[j].files) = Len(job[j].invoices)
      [] pc \in {"convert", "converting"} ->
            \A i \in DOMAIN job'[j].files :
                job'[j].files[i].status # "ready_for_conversion"
                    \/ job'[j].files[i].converted_total # NoneNum
      [] OTHER -> TRUE

\* C21: within one run the stages execute in the order upload, extract,
\* check_currency, convert, excel: a step of a run either stays in its stage
\* and goes on to a later item, or leaves the stage, finished for all items,
\* for the next one, or the run is given up (a node raised, the timeout);
\* no stage is entered again and no item is tried again
C21_StagesInOrder ==
    [][\A j \in JobIds :
        job'[j] # job[j] /\ job[j].pc \notin {"absent", "submitted"} =>
            \/ /\ StageRank(job'[j].pc) = StageRank(job[j].pc)
               /\ job[j].pc \in {"extracting", "converting"}
               /\ job'[j].pc = job[j].pc
               /\ job'[j].idx > job[j].idx
            \/ /\ StageRank(job'[j].pc) = StageRank(job[j].pc)
               /\ job[j].pc \in {"extract", "convert"}
               /\ job'[j].pc \in {"extracting", "converting"}
            \/ /\ StageRank(job'[j].pc) = StageRank(job[j].pc) + 1
               /\ StageFinished(job[j].pc, j)
            \/ job'[j].pc \in {"raised", "cancelled"}]_vars

\* a run of two files is through all five stages, a lookup made on the way
C21_Witness ==
    /\ job["j1"].pc = "done"
    /\ Len(job["j1"].input) = 2
    /\ Len(job["j1"].invoices) = 2
    /\ requests > 0

(***************************************************************************)
(* Properties of the report                                                *)
(***************************************************************************)
\* the run of job j is through excel.run on a batch that is not empty
Rendered(j) == job[j].pc = "done" /\ Len(job[j].input) > 0

\* C22: the report of a job that is not empty has one data row per uploaded
\* file, in upload order, and row_count is the number of uploaded files
C22_RowPerUploadedFile ==
    \A j \in JobIds :
        Rendered(j) =>
            /\ job[j].row_count = Len(job[j].input)
            /\ Len(job[j].rows) = Len(job[j].input)
            /\ \A i \in DOMAIN job[j].rows : job[j].rows[i].item = job[j].input[i].filename

\* what the report holds instead: one row per extracted invoice, in the order
\* of extraction, or the one placeholder row when nothing was extracted
C22_RowPerExtractedInvoice ==
    \A j \in JobIds :
        Rendered(j) =>
            /\ job[j].row_count = Len(job[j].rows)
            /\ job[j].row_count >= 1
            /\ IF Len(job[j].invoices) = 0
               THEN job[j].rows = <<error_row>>
               ELSE /\ Len(job[j].rows) = Len(job[j].invoices)
                    /\ \A i \in DOMAIN job[j].rows :
                            job[j].rows[i].item = job[j].invoices[i].filename

\* a cell that shows a marker: a text that is not empty
Marker(cell) == cell.kind = "text" /\ cell.text # ""

\* the invoice of row i of job j was marked failed by check_currency.run or
\* by convert.run
RowFailed(j, i) ==
    /\ Len(job[j].invoices) > 0
    /\ job[j].invoices[i].conv.set
    /\ job[j].invoices[i].conv.status = "failed"

\* C23: the row of a failed item shows a marker in its converted-total cell
\* and in its exchange-rate cell; neither is blank or empty
C23_FailedRowShowsMarkers ==
    \A j \in JobIds :
        Rendered(j) =>
            \A i \in DOMAIN job[j].rows :
                RowFailed(j, i) =>
                    /\ Marker(job[j].rows[i].target_total)
                    /\ Marker(job[j].rows[i].exchange_rate)

\* the same for the items that failed in a lookup only: their two cells are
\* None, not a marker
C23_FailedLookupShowsMarkers ==
    \A j \in JobIds :
        Rendered(j) =>
            \A i \in DOMAIN job[j].rows :
                RowFailed(j, i) /\ job[j].invoices[i].total = "value"
                    /\ job[j].files[i].lookup # NoOutcome =>
                    /\ Marker(job[j].rows[i].target_total)
                    /\ Marker(job[j].rows[i].exchange_rate)

(***************************************************************************)
(* Properties of the breaker under concurrent jobs                         *)
(***************************************************************************)
\* job j takes a step of convert.run that starts at item p
ConvertStep(j, p) ==
    /\ job'[j] # job[j]
    /\ \/ job[j].pc = "convert" /\ p = 1
       \/ job[j].pc = "converting" /\ p = job[j].idx + 1

\* C24: the breaker is shared by the jobs that run at the same time.  The
\* counter is the number of failed lookups of all jobs since the last
\* successful lookup of any job: a failed lookup of any job adds one, a
\* successful lookup of any job sets it to 0, and when it has reached 2 the
\* next items of every job that need a lookup are rejected without a request.
C24_BreakerShared ==
    /\ [](failure_count = failures_since)
    /\ [][\A j \in JobIds :
            /\ job[j].pc = "converting" /\ job'[j] # job[j] =>
                LET answered == job'[j].files[job[j].idx].lookup
                IN  /\ answered.type = "ok" => failure_count' = 0
                    /\ answered.type = "Exception" => failure_count' = failure_count + 1
            /\ \A p \in 1..(MaxFiles + 1) :
                ConvertStep(j, p) /\ failure_count' >= max_failures =>
                    /\ requests' = requests
                    /\ job'[j].pc = "excel"
                    /\ \A i \in DOMAIN job[j].files :
                        i >= p /\ NeedsLookup(j, i) =>
                            /\ job'[j].files[i].status = "failed"
                            /\ job'[j].files[i].lookup.type = "FrankfurterDown"]_vars

\* both jobs had a request in flight at the same time; one lookup of each
\* failed, and the second item of the second job was rejected
C24_Witness ==
    /\ job["j1"].pc = "converting" /\ job["j1"].idx = 2
    /\ job["j1"].files[1].lookup.type = "Exception"
    /\ job["j2"].pc = "excel" /\ Len(job["j2"].files) = 2
    /\ job["j2"].files[1].lookup.type = "Exception"
    /\ job["j2"].files[2].lookup.type = "FrankfurterDown"
    /\ failure_count = 2

\* two lookups of the first job failed, a lookup of the second job, begun
\* before, succeeded and closed the breaker for both
C24_WitnessReset ==
    /\ job["j1"].pc = "excel" /\ Len(job["j1"].files) = 2
    /\ job["j1"].files[1].lookup.type = "Exception"
    /\ job["j1"].files[2].lookup.type = "Exception"
    /\ job["j2"].files[1].lookup.type = "ok"
    /\ failure_count = 0
    /\ last_op = "record_success"

(***************************************************************************)
(* Properties of the breaker's lock                                        *)
(***************************************************************************)
\* the tasks that are between acquiring and releasing the lock
Inside == {t \in Tasks : task[t].pc \in InCriticalSection}

\* C25: under any interleaving of the steps of concurrent breaker calls, each
\* call is one critical section (one task at a time holds the lock, the count
\* it read is the count when it writes or returns, and nobody else changes
\* the count meanwhile), and no increment is lost: whenever no call is inside
\* its critical section, the counter is the number of record_failure calls
\* completed since the last completed record_success or reset.
C25_CriticalSections ==
    /\ [](/\ Cardinality(Inside) <= 1
          /\ \A t \in Tasks : t \in Inside <=> lock = t
          /\ \A t \in Tasks : task[t].pc \in {"write", "release"} =>
                /\ task[t].pc = "write" => task[t].local = failure_count
                /\ task[t].pc = "release" /\ task[t].op = "is_open" =>
                        task[t].ret = (IF failure_count >= max_failures THEN 1 ELSE 0)
                /\ task[t].pc = "release" /\ task[t].op = "get_failure_count" =>
                        task[t].ret = failure_count
          /\ Inside = {} => failure_count = failures_since)
    /\ [][\A t \in Tasks :
            t \in Inside /\ task'[t] = task[t] => failure_count' = failure_count]_vars

\* a task is about to return from record_failure, having counted the second
\* failure, while the other one, in record_failure too, waits for the lock
C25_Witness ==
    /\ task["t1"].pc = "release" /\ task["t1"].op = "record_failure"
    /\ task["t2"].pc = "acquire" /\ task["t2"].op = "record_failure"
    /\ lock = "t1"
    /\ failure_count = 2
    /\ failures_since = 1

\* both calls of record_failure are complete and both are counted
C25_WitnessBothCounted ==
    /\ \A t \in Tasks : task[t].pc = "idle" /\ task[t].op = "record_failure"
    /\ failure_count = 2
    /\ failures_since = 2
    /\ last_op = "record_failure"

\* C26: under any interleaving of the get_rate calls of the jobs, no request
\* is started while the breaker is open: when a request starts, fewer than 2
\* failures have been counted since the last success or reset.
C26_NoRequestWhileOpen ==
    [][requests' # requests =>
        /\ requests' = requests + 1
        /\ failure_count' < max_failures
        /\ failures_since' < max_failures]_vars

\* requests of both jobs were in flight when the breaker had one failure;
\* both failed, the count is 3, and the item that came next was rejected
C26_Witness ==
    /\ failure_count = 3
    /\ requests = 3
    /\ job["j1"].pc = "excel" /\ job["j2"].pc = "excel"
    /\ Len(job["j2"].files) = 2
    /\ job["j2"].files[1].lookup.type = "Exception"
    /\ job["j2"].files[2].lookup.type = "FrankfurterDown"

(***************************************************************************)
(* Properties of jobs that run at the same time                            *)
(***************************************************************************)
\* C27: two jobs in flight never read or change each other's batch: the
\* content extract_invoice reads for a file of job j is the content job j
\* uploaded for it, also when the other job has a file of the same name.
C27_JobsReadOwnUploads ==
    \A j \in JobIds :
        job[j].pc \in {"extract", "extracting", "check_currency"} =>
            \A i \in DOMAIN job[j].files :
                job[j].files[i].read # NoFile => job[j].files[i].read.job = j

\* the part that holds: the files and invoices of a run are those of its own
\* input, in order
C27_OwnItems ==
    \A j \in JobIds :
        job[j].pc \in {"extract", "extracting", "check_currency"} =>
            /\ Len(job[j].files) = Len(job[j].input)
            /\ \A i \in DOMAIN job[j].files : job[j].files[i].filename = job[j].input[i].filename
            /\ \A n \in DOMAIN job[j].invoices :
                    \E i \in DOMAIN job[j].input : job[j].invoices[n].filename = job[j].input[i].filename

\* the first file of j1 was read as j1 uploaded it; while its extraction was
\* under way j2 uploaded a file named like j1's second one, and j1 read that
C27_OverwrittenDuringExtraction ==
    /\ job["j1"].pc = "extracting" /\ job["j1"].idx = 2
    /\ job["j1"].files[1].read.job = "j1"
    /\ job["j1"].files[2].read.job = "j2"

(***************************************************************************)
(* Properties of the persisted records                                     *)
(***************************************************************************)
\* C28: when the job is completed, the File record of every item holds the
\* item's final status, with converted_total and exchange_rate or with an
\* error_message.
C28_FileRecordsFinal ==
    \A j \in JobIds :
        db[j].status = "completed" =>
            \A i \in DOMAIN db_files[j] :
                LET row == db_files[j][i]
                IN  /\ row.status # "uploaded"
                    /\ \/ row.converted_total # NoneNum /\ row.exchange_rate # NoneNum
                       \/ row.error_message # "None"

\* what happens instead: the File records stay as process_invoices stored them
C28_FileRecordsNeverUpdated ==
    [][\A j \in JobIds : db_files[j] # <<>> => db_files'[j] = db_files[j]]_vars

(***************************************************************************)
(* Properties of the validation                                            *)
(***************************************************************************)
\* the currency code and the amount of an invoice were both extracted
CurrencyAndAmountExtracted(invoice) ==
    /\ invoice.total = "value"
    /\ invoice.currency \notin {"None", ""}
    /\ invoice.amount # NoneNum

\* check_currency.run has just returned for job j
Validated(j) == job[j].pc = "convert"

\* C29: check_currency.run marks an item failed, with a message, exactly when
\* its currency or its amount was not extracted.
C29_FailedIffNotExtracted ==
    \A j \in JobIds :
        Validated(j) =>
            \A i \in DOMAIN job[j].files :
                (job[j].files[i].status = "failed" /\ job[j].files[i].error.text # "None")
                    <=> ~CurrencyAndAmountExtracted(job[j].invoices[i])

\* what check_currency.run does: an item is failed exactly when the invoice
\* has no InvoiceTotal.value_currency; every invoice stays in the batch
C29_FailedIffNoValueCurrency ==
    \A j \in JobIds :
        Validated(j) =>
            /\ Len(job[j].files) = Len(job[j].invoices)
            /\ \A i \in DOMAIN job[j].files :
                /\ job[j].files[i].filename = job[j].invoices[i].filename
                /\ job[j].files[i].status = "failed" <=> job[j].invoices[i].total # "value"
                /\ job[j].files[i].status = "failed" =>
                        job[j].files[i].error.text = "No currency information found in invoice"

\* convert.run makes no lookup for an item that check_currency.run failed,
\* nor for one without currency code or amount
C29_NoLookupForFailed ==
    \A j \in JobIds :
        job[j].pc \in {"converting", "excel", "done"} =>
            /\ Len(job[j].files) = Len(job[j].invoices)
            /\ \A i \in DOMAIN job[j].files :
                (job[j].files[i].lookup # NoOutcome \/ (job[j].pc = "converting" /\ job[j].idx = i))
                    => CurrencyAndAmountExtracted(job[j].invoices[i])

(***************************************************************************)
(* Properties of the extraction                                            *)
(***************************************************************************)
\* extract_invoice has returned nothing usable for the file at idx of job j:
\* it returned None or raised, and no invoice was added
ExtractionFails(j) ==
    /\ job[j].pc = "extracting"
    /\ job'[j] # job[j]
    /\ job'[j].invoices = job[j].invoices

\* C30: extract.run does not raise when the extraction of a file fails: the
\* file is marked failed with an error message, the other files are left as
\* they are, and the loop goes on with the next file that has a file_path,
\* or ends, and check_currency follows.
C30_ExtractionFailureIsolated ==
    [][\A j \in JobIds :
        ExtractionFails(j) =>
            LET i == job[j].idx
                rest == {k \in DOMAIN job[j].files : k > i /\ job[j].files[k].file_path # "None"}
            IN  /\ job'[j].files[i].status = "failed"
                /\ job'[j].files[i].error_message
                        \in {"Failed to extract invoice data", "extraction service error"}
                /\ \A k \in DOMAIN job[j].files :
                        k # i => job'[j].files[k].status = job[j].files[k].status
                /\ IF rest = {}
                   THEN job'[j].pc = "check_currency"
                   ELSE /\ job'[j].pc = "extracting"
                        /\ job'[j].idx \in rest
                        /\ \A k \in rest : job'[j].idx <= k]_vars

\* extract_invoice raised for the first file and returned an invoice for the
\* second one
C30_Witness ==
    /\ job["j1"].pc = "check_currency"
    /\ Len(job["j1"].files) = 2
    /\ job["j1"].files[1].status = "failed"
    /\ job["j1"].files[1].error_message = "extraction service error"
    /\ job["j1"].files[2].status = "extracted"
    /\ Len(job["j1"].invoices) = 1
    /\ job["j1"].invoices[1].filename = job["j1"].files[2].filename

\* C31: the total of a job row never changes once the row exists, and
\* processed never decreases and never exceeds total, whatever the runner
\* does, the error and the timeout paths included.
C31_ProcessedWithinTotal ==
    /\ [](\A j \in JobIds :
            /\ db[j].processed >= 0
            /\ db[j].processed <= db[j].total)
    /\ [][\A j \in JobIds :
            db[j] # NoRow =>
                /\ db'[j].total = db[j].total
                /\ db'[j].processed >= db[j].processed
                /\ db'[j].processed <= db'[j].total]_vars

\* a job of two files is completed: processed went from 0 to 2, its total
C31_Witness ==
    /\ db["j1"] = JobRow("completed", 2, 2)
    /\ runner["j1"].outcome = "completed"

\* a job of two files ended in the error path: processed is still 0
C31_WitnessError ==
    /\ db["j1"] = JobRow("error", 0, 2)
    /\ runner["j1"].outcome = "error"

(***************************************************************************)
(* Properties of the MCP tool's cache                                      *)
(***************************************************************************)
\* a step that is a call of get_exchange_rate with a date that parses
McpCall == mcp'.calls # mcp.calls /\ mcp'.last.key # NoKey

\* C32: after a call for a key has returned, every later call with the same
\* key (normalised date, upper-case codes) returns the same result without a
\* request.
C32_LaterCallsFromCache ==
    [][McpCall =>
        \A e \in mcp.returned :
            e.key = mcp'.last.key =>
                /\ mcp'.requests = mcp.requests
                /\ mcp'.last.out.type = "ok"
                /\ mcp'.last.out.result = e.result]_vars

\* C32, amended: a call whose key is in the cache file, the file being
\* readable, returns the entry without a request and leaves the file as it
\* is; any other call with a date that parses sends a request; a result is
\* in the file after the call when the file could be written; and every
\* entry of the file is the result some call returned for that key.  The
\* key is the normalised date with the two upper-case codes, so the date's
\* format and the codes' case make no difference.
C32_CachedKeyFromCache ==
    [][McpCall =>
        LET k == mcp'.last.key
            out == mcp'.last.out
            hits == {e \in mcp.cache : e.key = k}
        IN  /\ Cardinality(hits) <= 1
            /\ IF mcp'.last.load_ok /\ hits # {}
               THEN /\ mcp'.requests = mcp.requests
                    /\ out.type = "ok"
                    /\ \A e \in hits : out.result = e.result
                    /\ mcp'.cache = mcp.cache
               ELSE mcp'.requests = mcp.requests + 1
            /\ out.type = "ok" /\ mcp'.last.saved =>
                    [key |-> k, result |-> out.result] \in mcp'.cache
            /\ mcp'.cache \subseteq mcp'.returned]_vars

\* three calls for one key, the last with the date as 7-10-2025: one request,
\* and the result of the first call returned each time
C32_Witness ==
    /\ mcp.calls = 3
    /\ mcp.requests = 1
    /\ mcp.last.fmt = "dmy"
    /\ mcp.last.key = McpKey(DateStr("ymd", 2025, 7, 10), "USD", "ILS")
    /\ mcp.last.out.type = "ok"
    /\ Cardinality(mcp.returned) = 1
    /\ Cardinality(mcp.cache) = 1

(***************************************************************************)
(* Properties of the outcome a lookup records                              *)
(***************************************************************************)
\* the breaker operation of a step is op, performed once
Recorded(op) ==
    /\ last_op' = op
    /\ failure_count' = (IF op = "record_success" THEN 0 ELSE failure_count + 1)

\* C33: a get_rate call that got past the breaker check and the date
\* normalisation records one outcome before it ends: record_success if and
\* only if it returns a rate, record_failure if and only if it raises,
\* whatever the response is.
C33_OneOutcomeRecorded ==
    [][\A c \in Callers :
        ReturnStep(c) =>
            IF call'[c].ret.type = "ok"
            THEN Recorded("record_success")
            ELSE Recorded("record_failure")]_vars

\* the same for the responses other than a 200 whose body is not a JSON
\* object or whose rate is not a number: for these it holds
C33_OneOutcomeForWellFormed ==
    [][\A c \in Callers :
        ReturnStep(c) /\ call'[c].ret.type \notin {"AttributeError", "InvalidOperation"} =>
            IF call'[c].ret.type = "ok"
            THEN Recorded("record_success")
            ELSE Recorded("record_failure")]_vars

\* a 200 response with a JSON array: the call raised and recorded nothing
C33_NothingRecorded ==
    \E c \in Callers :
        /\ call[c].pc = "idle"
        /\ call[c].resp.kind = "not_object"
        /\ call[c].ret.type = "AttributeError"
        /\ last_op = "none"

\* a 200 response whose rate is null: the call raised after record_success
C33_SuccessRecordedThenRaised ==
    \E c \in Callers :
        /\ call[c].pc = "idle"
        /\ call[c].ret.type = "InvalidOperation"
        /\ last_op = "record_success"
        /\ failure_count = 0

(***************************************************************************)
(* Properties of the progress events                                       *)
(***************************************************************************)
\* the event has the keys current_step, processed, total and percentage
\* (job_id, status and message are in every event the task builds)
HasAllKeys(ev) ==
    /\ ev.current_step # "None"
    /\ ev.processed >= 0
    /\ ev.total >= 0
    /\ ev.percentage >= 0
    /\ ev.message.text # ""

\* C34: every progress event the task emits, the terminal error and timeout
\* events included, carries job_id, status, current_step, processed, total,
\* percentage and message.
C34_EventsCarryAllFields ==
    \A j \in JobIds :
        \A n \in DOMAIN runner[j].emitted : HasAllKeys(runner[j].emitted[n].event)

\* the events with status processing or completed carry all the fields
C34_ProgressEventsCarryAllFields ==
    \A j \in JobIds :
        \A n \in DOMAIN runner[j].emitted :
            LET ev == runner[j].emitted[n].event
            IN  /\ ev.status \in {"processing", "completed"} => HasAllKeys(ev)
                /\ ev.status = "error" =>
                        /\ ev.current_step = "None"
                        /\ ev.message.text
                                \in {"Pipeline execution timed out", "Pipeline execution failed"}

(***************************************************************************)
(* Properties of the 'Frankfurter API is down' error                       *)
(***************************************************************************)
\* C35: the error raised while the breaker is open reports the breaker's
\* failure count, the value get_failure_count returns at that moment.
C35_ErrorReportsFailureCount ==
    [][\A c \in Callers :
        CallStep(c) /\ call'[c].ret.type = "FrankfurterDown" =>
            call'[c].ret.n = get_failure_count(failure_count)]_vars

\* what the error reports: one more than the failure count
C35_ErrorReportsCountPlusOne ==
    [][\A c \in Callers :
        CallStep(c) /\ call'[c].ret.type = "FrankfurterDown" =>
            /\ failure_count >= max_failures
            /\ failure_count' = failure_count
            /\ call'[c].ret.n = get_failure_count(failure_count) + 1]_vars

\* the terminal events among the events the task of job j emitted
TerminalEvents(j) ==
    {n \in DOMAIN runner[j].emitted : runner[j].emitted[n].event.status \in {"completed", "error"}}

\* C36: a run emits at most one terminal event: no error event follows a
\* completed event, nor the other way round, also when the update of the job
\* row fails afterwards.
C36_OneTerminalEvent ==
    \A j \in JobIds : Cardinality(TerminalEvents(j)) <= 1

\* at most one terminal event for the runs whose job row could be updated
C36_OneTerminalEventUnlessDbFails ==
    \A j \in JobIds :
        runner[j].outcome \notin {"db_error", "crashed"} => Cardinality(TerminalEvents(j)) <= 1

\* a completed event followed by an error event, and the job row says error
C36_CompletedThenError ==
    \E j \in JobIds :
        LET n == Len(runner[j].emitted)
        IN  /\ n >= 2
            /\ runner[j].emitted[n - 1].event.status = "completed"
            /\ runner[j].emitted[n].event.status = "error"
            /\ db[j].status = "error"
            /\ job[j].pc = "done"

(***************************************************************************)
(* C37: two progress streams of one job                                    *)
(***************************************************************************)
\* the streams s and t were opened for the same job
SameJob(s, t) ==
    /\ s # t
    /\ stream[s].pc \in {"open", "closed"}
    /\ stream[t].pc \in {"open", "closed"}
    /\ stream[s].job = stream[t].job

\* C37: when two progress streams are opened for the same job and the job's
\* run, which found a queue, has returned, each stream has ended or still
\* has an event to take: no stream is left open with an empty queue, waiting
\* forever
C37_NeitherStreamStarved ==
    \A s \in Streams, t \in Streams :
        (/\ SameJob(s, t)
         /\ runner[stream[s].job].pc = "returned"
         /\ runner[stream[s].job].queue # "None"
         /\ stream[s].pc = "open")
        => stream[s].queue # <<>>

\* a stream whose entry was replaced by the second one: the run put its
\* events on the second stream's queue, that stream ended, the first one is
\* open and has received nothing
C37_FirstStreamStarved ==
    /\ SameJob("s1", "s2")
    /\ runner[stream["s1"].job].pc = "returned"
    /\ runner[stream["s1"].job].queue = "s2"
    /\ stream["s2"].pc = "closed"
    /\ stream["s1"].pc = "open"
    /\ stream["s1"].queue = <<>>
    /\ stream["s1"].got = <<>>

\* a stream opened after the run took the first one's queue: the first
\* stream ended and deleted the entry the second one had registered
C37_SecondStreamStarved ==
    /\ SameJob("s1", "s2")
    /\ runner[stream["s1"].job].pc = "returned"
    /\ runner[stream["s1"].job].queue = "s1"
    /\ stream["s1"].pc = "closed"
    /\ stream["s2"].pc = "open"
    /\ stream["s2"].got = <<>>
    /\ progress_queues[stream["s2"].job] = "None"

\* with one stream per job the stream of a run that found it gets the
\* terminal event
C37_SingleStreamEnds ==
    \A s \in Streams :
        (/\ stream[s].pc = "open"
         /\ runner[stream[s].job].pc = "returned"
         /\ runner[stream[s].job].queue # "None")
        => stream[s].queue # <<>>

(***************************************************************************)
(* C38: the conversion results copied to the invoices                      *)
(***************************************************************************)
\* what convert.run copies from the file entry f to an invoice
OwnResult(f) ==
    [set |-> TRUE,
     converted_amount |-> f.converted_total,
     exchange_rate |-> f.exchange_rate,
     status |-> IF f.status = "None" THEN "success" ELSE f.status]

\* ConversionStage has run for the job
Converted38(j) == job[j].pc \in {"excel", "done"}

\* no two entries of the job's files have the same filename
DistinctNames(j) ==
    \A i \in DOMAIN job[j].files, k \in DOMAIN job[j].files :
        job[j].files[i].filename = job[j].files[k].filename => i = k

\* C38: after ConversionStage invoice N carries the converted amount, the
\* exchange rate and the status of file N, also when two files of the batch
\* have the same filename
C38_ItemCarriesOwnResult ==
    \A j \in JobIds :
        Converted38(j) =>
            \A n \in DOMAIN job[j].invoices :
                /\ n \in DOMAIN job[j].files
                /\ job[j].invoices[n].conv = OwnResult(job[j].files[n])

\* the same for the batches whose filenames are distinct
C38_DistinctNamesCarryOwnResult ==
    \A j \in JobIds :
        (Converted38(j) /\ DistinctNames(j)) =>
            \A n \in DOMAIN job[j].invoices :
                /\ n \in DOMAIN job[j].files
                /\ job[j].invoices[n].conv = OwnResult(job[j].files[n])

\* two files named a.pdf: the first was converted, the second failed, and
\* the first invoice carries the second file's failure
C38_ResultOfOtherFile ==
    /\ Converted38("j1")
    /\ Len(job["j1"].files) = 2
    /\ job["j1"].files[1].filename = job["j1"].files[2].filename
    /\ job["j1"].files[1].status # "failed"
    /\ job["j1"].files[1].converted_total # NoneNum
    /\ job["j1"].files[2].status = "failed"
    /\ job["j1"].invoices[1].conv = OwnResult(job["j1"].files[2])
    /\ job["j1"].invoices[1].conv # OwnResult(job["j1"].files[1])

(***************************************************************************)
(* C39: the items reported as missing fields                               *)
(***************************************************************************)
MissingText == "Missing required fields: invoice_date, src_currency, or invoice_total"

ReportedMissing(f) == f.status = "failed" /\ f.error.text = MissingText

\* C39: after ConversionStage an item that carries an invoice date, a source
\* currency and a source amount is not marked failed as 'Missing required
\* fields', an amount equal to 0 included
C39_CompleteItemNotMissing ==
    \A j \in JobIds :
        job[j].pc = "excel" =>
            \A i \in DOMAIN job[j].files :
                HasAllFields(job[j].files[i]) => ~ReportedMissing(job[j].files[i])

\* the same for the items whose amount is not 0
C39_NonZeroItemNotMissing ==
    \A j \in JobIds :
        job[j].pc = "excel" =>
            \A i \in DOMAIN job[j].files :
                (HasAllFields(job[j].files[i]) /\ job[j].files[i].invoice_total.c # 0)
                    => ~ReportedMissing(job[j].files[i])

\* an item with date, currency and the amount 0 is reported as missing and
\* has no converted amount
C39_ZeroAmountReportedMissing ==
    /\ job["j1"].pc = "excel"
    /\ \E i \in DOMAIN job["j1"].files :
        LET f == job["j1"].files[i]
        IN  /\ HasAllFields(f)
            /\ f.invoice_total = Dec(0, 0)
            /\ ReportedMissing(f)
            /\ f.converted_total = NoneNum

(***************************************************************************)
(* a run of the pipeline on one invoice, the invoice's date drawn from a   *)
(* set of calendar dates                                                   *)
(***************************************************************************)
InvoiceDates ==
    {d \in {2024, 2025} \X {1, 2, 7, 12} \X {1, 7, 10, 12, 13, 29, 31} : ValidYMD(d[1], d[2], d[3])}

DateOutcomes == {ExtractOk(Invoice(d, "value", "EUR", Dec(100, 0))) : d \in InvoiceDates}

InitDates ==
    /\ failure_count = 0
    /\ failures_since = 0
    /\ requests = 0
    /\ call = [c \in Callers |-> Idle(NoDate, NoUrl, NoResp, NoOutcome)]
    /\ job = [NoJobs EXCEPT !["j1"] = NewJob("upload", "ils", <<InputFile("a.pdf", "data")>>, <<>>)]
    /\ uploads = EmptyUploads
    /\ last_op = "none"
    /\ NoApp

NextDates ==
    \/ \E j \in JobIds : Upload(j)
    \/ \E j \in JobIds : ExtractStart(j)
    \/ \E j \in JobIds, out \in DateOutcomes : ExtractReturn(j, out)
    \/ \E j \in JobIds : CheckCurrency(j)
    \/ \E j \in JobIds : ConvertStart(j)
    \/ \E j \in JobIds, resp \in SharedResponses : ConvertReturn(j, resp)
    \/ \E j \in JobIds : Excel(j)

SpecDates == InitDates /\ [][NextDates]_vars

(***************************************************************************)
(* C40: the date that is looked up                                         *)
(***************************************************************************)
\* the calendar date <<y, m, d>> in YYYY-MM-DD form
IsoDate(d) == DateStr("ymd", d[1], d[2], d[3])

\* the job waits for the rate of its file idx, whose invoice has a date
LooksUp(j) ==
    /\ job[j].pc = "converting"
    /\ job[j].idx \in DOMAIN job[j].invoices
    /\ job[j].invoices[job[j].idx].date # <<>>

\* C40: the date of the request ConversionStage sends for an invoice is the
\* invoice's extracted calendar date in YYYY-MM-DD form: formatting it as
\* DD-MM-YYYY and normalising it swaps neither day nor month
C40_LookupDateIsInvoiceDate ==
    \A j \in JobIds :
        LooksUp(j) =>
            LET d == job[j].invoices[job[j].idx].date
            IN  /\ _normalize_date(FormatDMY(d)) = [ok |-> TRUE, date |-> IsoDate(d)]
                /\ job[j].url.date = IsoDate(d)

\* the same for the dates whose day is after the 12th or equals the month
C40_LookupDateKeptAfter12th ==
    \A j \in JobIds :
        LooksUp(j) =>
            LET d == job[j].invoices[job[j].idx].date
            IN  (d[3] > 12 \/ d[3] = d[2]) => job[j].url.date = IsoDate(d)

\* a date whose day is at most 12 and differs from the month is looked up
\* with day and month swapped
C40_LookupDateSwapsUpTo12th ==
    \A j \in JobIds :
        LooksUp(j) =>
            LET d == job[j].invoices[job[j].idx].date
            IN  (d[3] <= 12 /\ d[3] # d[2]) => job[j].url.date = IsoDate(<<d[1], d[3], d[2]>>)

\* the invoice of 10 July 2025 is looked up as 7 October 2025
C40_JulyLookedUpAsOctober ==
    /\ LooksUp("j1")
    /\ job["j1"].invoices[job["j1"].idx].date = <<2025, 7, 10>>
    /\ job["j1"].url.date = DateStr("ymd", 2025, 10, 7)

====
